---- MODULE Spec2Model ----
(***************************************************************************)
(* Model of the exam corrector: the weighted scoring of feature verdicts   *)
(* (Assessor.calculate_score), the per-question assessment                 *)
(* (Assessor.assess_single_answer), the per-student exam loop             *)
(* (Assessor.assess_student_exam), the assess_student_exam tool of         *)
(* ExamMCPServer with its student matching, and the multi-agent client     *)
(* (setup, distribute, workers, report of TrueParallelExamAssessment).     *)
(*                                                                         *)
(* Specifications: SpecScore (calculate_score alone), SpecRescore (calls   *)
(* of calculate_score one after another), Spec (one call of                *)
(* Assessor.assess_student_exam), SpecGrades (the same with                *)
(* original_grades given), SpecTool (one call of the tool on loaded        *)
(* exams), SpecStore (calls of the tool one after another on one server),  *)
(* SpecBatch (one run of the graph, the tool calls of its workers step by   *)
(* step), SpecBatchFair (the same run with weak fairness of its steps).    *)
(*                                                                         *)
(* Scores are Python floats.  The model keeps IEEE-754 binary64 values as  *)
(* records [m, e] (value m * 2^e, m a 53-bit natural held in 13-bit limbs, *)
(* least significant limb first) and rounds every operation to nearest,    *)
(* ties to even, as the interpreter does.                                  *)
(***************************************************************************)
EXTENDS Integers, Sequences, FiniteSets, TLC

\* ------------------------------------------------------------------------
\* Naturals of arbitrary size, in limbs of LimbBits bits
\* ------------------------------------------------------------------------

LimbBits == 13
LimbBase == 8192
MantBits == 53

Pow2(k) == 2^k

MaxOf(a, b) == IF a >= b THEN a ELSE b

Limb(a, i) == IF i >= 1 /\ i <= Len(a) THEN a[i] ELSE 0

RECURSIVE BTrim(_)
BTrim(a) ==
    IF a = <<>> THEN a
    ELSE IF a[Len(a)] = 0 THEN BTrim(SubSeq(a, 1, Len(a) - 1))
    ELSE a

RECURSIVE BCarry(_, _)
BCarry(cols, c) ==
    IF cols = <<>>
    THEN IF c = 0 THEN <<>> ELSE <<c % LimbBase>> \o BCarry(<<>>, c \div LimbBase)
    ELSE LET t == Head(cols) + c
         IN  <<t % LimbBase>> \o BCarry(Tail(cols), t \div LimbBase)

BFromInt(n) == BTrim(BCarry(<<n>>, 0))

RECURSIVE BToInt(_)
BToInt(a) == IF a = <<>> THEN 0 ELSE a[1] + LimbBase * BToInt(Tail(a))

BAdd(a, b) ==
    BTrim(BCarry([i \in 1..MaxOf(Len(a), Len(b)) |-> Limb(a, i) + Limb(b, i)], 0))

RECURSIVE BBorrow(_, _, _, _)
BBorrow(a, b, i, br) ==
    IF i > Len(a) THEN <<>>
    ELSE LET t == a[i] - Limb(b, i) - br
         IN  IF t < 0 THEN <<t + LimbBase>> \o BBorrow(a, b, i + 1, 1)
                      ELSE <<t>> \o BBorrow(a, b, i + 1, 0)

\* a - b, for a >= b
BSub(a, b) == BTrim(BBorrow(a, b, 1, 0))

RECURSIVE ColSum(_, _, _, _)
ColSum(a, b, k, i) ==
    IF i > Len(a) \/ i > k THEN 0
    ELSE a[i] * Limb(b, k + 1 - i) + ColSum(a, b, k, i + 1)

BMul(a, b) ==
    IF a = <<>> \/ b = <<>> THEN <<>>
    ELSE BTrim(BCarry([k \in 1..(Len(a) + Len(b) - 1) |-> ColSum(a, b, k, 1)], 0))

RECURSIVE BCmpAt(_, _, _)
BCmpAt(a, b, i) ==
    IF i = 0 THEN 0
    ELSE IF a[i] > b[i] THEN 1
    ELSE IF a[i] < b[i] THEN -1
    ELSE BCmpAt(a, b, i - 1)

\* -1, 0 or 1 as a < b, a = b or a > b (both without leading zero limbs)
BCmp(a, b) ==
    IF Len(a) > Len(b) THEN 1
    ELSE IF Len(a) < Len(b) THEN -1
    ELSE BCmpAt(a, b, Len(a))

RECURSIVE IntBitLen(_)
IntBitLen(n) == IF n = 0 THEN 0 ELSE 1 + IntBitLen(n \div 2)

BBitLen(a) == IF a = <<>> THEN 0 ELSE (Len(a) - 1) * LimbBits + IntBitLen(a[Len(a)])

BShl(a, k) ==
    IF a = <<>> THEN <<>>
    ELSE LET q == k \div LimbBits
             r == k % LimbBits
         IN  [i \in 1..q |-> 0] \o BTrim(BCarry([i \in 1..Len(a) |-> a[i] * Pow2(r)], 0))

BShr(a, k) ==
    LET q == k \div LimbBits
        r == k % LimbBits
        d == IF q >= Len(a) THEN <<>> ELSE SubSeq(a, q + 1, Len(a))
    IN  BTrim([i \in 1..Len(d) |->
                 (d[i] \div Pow2(r)) + (Limb(d, i + 1) % Pow2(r)) * Pow2(LimbBits - r)])

BIsOdd(a) == a # <<>> /\ a[1] % 2 = 1

\* a \div d for a small divisor d, and whether a remainder is left; limbs
\* are taken from the top, q collects the quotient limbs found so far
RECURSIVE BDivSmallAt(_, _, _, _, _)
BDivSmallAt(a, d, i, r, q) ==
    IF i = 0 THEN [q |-> BTrim(q), inexact |-> r # 0]
    ELSE BDivSmallAt(a, d, i - 1, (r * LimbBase + a[i]) % d,
                     <<(r * LimbBase + a[i]) \div d>> \o q)

BDivSmall(a, d) == BDivSmallAt(a, d, Len(a), 0, <<>>)

\* a * q for a digit q
BMulDigit(a, q) ==
    IF q = 0 THEN <<>> ELSE BTrim(BCarry([i \in 1..Len(a) |-> a[i] * q], 0))

\* a digit not below the largest q with q * d <= r, from the top limbs of r
\* and d, for r < d * LimbBase and the top limb of d at least LimbBase / 2
BDigit(r, d) ==
    LET n    == Len(d)
        rt   == Limb(r, n + 1) * LimbBase + Limb(r, n)
        qhat == rt \div d[n]
    IN  IF qhat > LimbBase - 1 THEN LimbBase - 1 ELSE qhat

\* long division, limbs taken from the top: r is the running remainder,
\* q collects the quotient limbs found so far, r1 is the remainder with the
\* next limb brought down, qd the candidate for the next quotient digit and
\* p = qd * d, lowered until it fits r1
RECURSIVE BDivAt(_, _, _, _, _)
RECURSIVE BDivDigit(_, _, _, _, _, _, _)
BDivDigit(a, d, i, r1, q, qd, p) ==
    IF BCmp(p, r1) > 0 THEN BDivDigit(a, d, i, r1, q, qd - 1, BSub(p, d))
    ELSE BDivAt(a, d, i - 1, BSub(r1, p), <<qd>> \o q)

BDivTry(a, d, i, r1, q, qd) == BDivDigit(a, d, i, r1, q, qd, BMulDigit(d, qd))

BDivDown(a, d, i, r1, q) == BDivTry(a, d, i, r1, q, BDigit(r1, d))

BDivAt(a, d, i, r, q) ==
    IF i = 0 THEN [q |-> BTrim(q), inexact |-> r # <<>>]
    ELSE BDivDown(a, d, i, BTrim(<<a[i]>> \o r), q)

\* a \div d and whether a remainder is left, the top limb of d at least
\* LimbBase / 2
BDiv(a, d) == BDivAt(a, d, Len(a), <<>>, <<>>)

\* ------------------------------------------------------------------------
\* Python floats (IEEE-754 binary64), round to nearest, ties to even
\* ------------------------------------------------------------------------

FZero == [m |-> <<>>, e |-> 0]

\* n / 2^s rounded to nearest, ties to even; sticky tells that the exact
\* value lies strictly above n
RoundsUp(c, q, sticky) == c > 0 \/ (c = 0 /\ (sticky \/ BIsOdd(q)))

\* q is n shifted right by s: the part shifted out is compared with a half
RoundQuot(n, s, sticky, q) ==
    IF RoundsUp(BCmp(BSub(n, BShl(q, s)), BShl(<<1>>, s - 1)), q, sticky)
    THEN BAdd(q, <<1>>)
    ELSE q

RoundShift(n, s, sticky) == RoundQuot(n, s, sticky, BShr(n, s))

\* the rounded mantissa m may have grown to MantBits + 1 bits
FNormal(m, e) ==
    IF BBitLen(m) > MantBits THEN [m |-> BShr(m, 1), e |-> e + 1] ELSE [m |-> m, e |-> e]

FRoundLen(n, e, sticky, len) ==
    IF len = 0 THEN FZero
    ELSE IF len <= MantBits
    THEN [m |-> BShl(n, MantBits - len), e |-> e - (MantBits - len)]
    ELSE FNormal(RoundShift(n, len - MantBits, sticky), e + (len - MantBits))

\* the float nearest to n * 2^e (strictly above it when sticky)
FRound(n, e, sticky) == FRoundLen(n, e, sticky, BBitLen(n))

\* the float nearest to a quotient x.q * 2^e that may have left a remainder
FRoundQuot(x, e) == FRound(x.q, e, x.inexact)

\* the float n / d of two naturals (int / int, or a decimal literal)
FromRatio(n, d) ==
    IF n = 0 THEN FZero
    ELSE FRoundQuot(BDivSmall(BShl(BFromInt(n), 70), d), -70)

FMul(x, y) ==
    IF x.m = <<>> \/ y.m = <<>> THEN FZero
    ELSE FRound(BMul(x.m, y.m), x.e + y.e, FALSE)

FAdd(x, y) ==
    IF x.m = <<>> THEN y
    ELSE IF y.m = <<>> THEN x
    ELSE LET lo == IF x.e <= y.e THEN x.e ELSE y.e
         IN  FRound(BAdd(BShl(x.m, x.e - lo), BShl(y.m, y.e - lo)), lo, FALSE)

FDiv(x, y) ==
    IF x.m = <<>> THEN FZero
    ELSE FRoundQuot(BDiv(BShl(x.m, 72), BShl(y.m, 12)), x.e - y.e - 60)

\* -1, 0 or 1 as x < y, x = y or x > y
FCmp(x, y) ==
    IF x.m = <<>> THEN (IF y.m = <<>> THEN 0 ELSE -1)
    ELSE IF y.m = <<>> THEN 1
    ELSE LET lo == IF x.e <= y.e THEN x.e ELSE y.e
         IN  BCmp(BShl(x.m, x.e - lo), BShl(y.m, y.e - lo))

\* round(x, nd), as the number of units of 10^-nd
RoundScaled(n, e) ==
    IF e >= 0 THEN BToInt(BShl(n, e)) ELSE BToInt(RoundShift(n, -e, FALSE))

RoundDigits(x, nd) ==
    IF x.m = <<>> THEN 0 ELSE RoundScaled(BMul(x.m, BFromInt(10^nd)), x.e)

\* ------------------------------------------------------------------------
\* Assessor.calculate_score
\* ------------------------------------------------------------------------

\* FeatureType member names, as stored in feature_assessments
CORE == "CORE"
DETAILS_IMPORTANT == "DETAILS_IMPORTANT"

\* a frozen dataclass: two features of the same type and description are
\* equal and hash alike
Feature(type, description) == [type |-> type, description |-> description]

F070 == FromRatio(70, 100)
F030 == FromRatio(30, 100)
F100 == FromRatio(1, 1)
FHundred == FromRatio(100, 1)

\* the scores are kept as floats; a score rounded to two places is written
\* as its number of hundredths h and stands for the float h / 100
ScoreFloat(h) == FromRatio(h, 100)

core_total(assessments) ==
    Cardinality({f \in DOMAIN assessments : f.type = CORE})

core_satisfied(assessments) ==
    Cardinality({f \in DOMAIN assessments : f.type = CORE /\ assessments[f]})

important_total(assessments) ==
    Cardinality({f \in DOMAIN assessments : f.type = DETAILS_IMPORTANT})

important_satisfied(assessments) ==
    Cardinality({f \in DOMAIN assessments : f.type = DETAILS_IMPORTANT /\ assessments[f]})

\* mutant: ImportantDetail weighs 0.20, as in Feature.weight_percentage
scoring_weights_m(ct, it) ==
    IF ct > 0 /\ it > 0
    THEN [core_weight |-> F070, important_weight |-> FromRatio(20, 100),
          scoring_system |-> "70% Core + 30% Important"]
    ELSE IF ct > 0
    THEN [core_weight |-> F100, important_weight |-> FZero,
          scoring_system |-> "100% Core (no Important details)"]
    ELSE [core_weight |-> FZero, important_weight |-> F100,
          scoring_system |-> "100% Important (no Core - unusual)"]

\* the weights for the groups present; only called with a feature present
scoring_weights(ct, it) ==
    IF ct > 0 /\ it > 0
    THEN [core_weight |-> F070, important_weight |-> F030,
          scoring_system |-> "70% Core + 30% Important"]
    ELSE IF ct > 0
    THEN [core_weight |-> F100, important_weight |-> FZero,
          scoring_system |-> "100% Core (no Important details)"]
    ELSE [core_weight |-> FZero, important_weight |-> F100,
          scoring_system |-> "100% Important (no Core - unusual)"]

core_percentage(cs, ct, w) ==
    IF ct > 0 THEN FMul(FromRatio(cs, ct), w.core_weight) ELSE FZero

important_percentage(is, it, w) ==
    IF it > 0 THEN FMul(FromRatio(is, it), w.important_weight) ELSE FZero

final_percentage(cp, ip) == FAdd(cp, ip)

\* mutant: the score is rounded to one place
final_score_m(fp, max_score) == 10 * RoundDigits(FMul(fp, max_score), 1)

\* round(final_percentage * max_score, 2), in hundredths
final_score(fp, max_score) == RoundDigits(FMul(fp, max_score), 2)

\* round(satisfied / total * 100, 1) if total > 0 else 0, in tenths
stats_percentage(satisfied, total) ==
    IF total > 0 THEN RoundDigits(FMul(FromRatio(satisfied, total), FHundred), 1) ELSE 0

\* (0.0, "No features assessed", {})
NoFeatures == [score |-> 0, breakdown |-> [text |-> "No features assessed"], stats |-> <<>>]

\* the breakdown text is written from these values (the group counts and
\* percentages, the final percentage, max_score, the score, the label)
breakdown_text(cs, ct, is, it, cp, ip, fp, max_score, score, w) ==
    [core      |-> IF ct > 0 THEN <<cs, ct, cp>> ELSE <<>>,
     important |-> IF it > 0 THEN <<is, it, ip>> ELSE <<>>,
     final     |-> fp,
     max_score |-> max_score,
     score     |-> score,
     scoring_system |-> w.scoring_system]

score_stats(cs, ct, is, it, w) ==
    [core |-> [total |-> ct, satisfied |-> cs,
               percentage |-> stats_percentage(cs, ct), weight |-> w.core_weight],
     details_important |-> [total |-> it, satisfied |-> is,
               percentage |-> stats_percentage(is, it), weight |-> w.important_weight],
     scoring_system |-> w.scoring_system]

\* assessments: a dict from Feature to the judge's satisfied flag;
\* max_score: a float.  The result is (score, breakdown, stats).
\* the returned tuple
score_tuple(cs, ct, is, it, cp, ip, fp, max_score, score, w) ==
    [score     |-> score,
     breakdown |-> breakdown_text(cs, ct, is, it, cp, ip, fp, max_score, score, w),
     stats     |-> score_stats(cs, ct, is, it, w)]

score_of_final(cs, ct, is, it, cp, ip, fp, max_score, w) ==
    score_tuple(cs, ct, is, it, cp, ip, fp, max_score, final_score(fp, max_score), w)

score_of_percentages(cs, ct, is, it, cp, ip, max_score, w) ==
    score_of_final(cs, ct, is, it, cp, ip, final_percentage(cp, ip), max_score, w)

score_of_weights(cs, ct, is, it, max_score, w) ==
    score_of_percentages(cs, ct, is, it, core_percentage(cs, ct, w),
                         important_percentage(is, it, w), max_score, w)

score_of_counts(cs, ct, is, it, max_score) ==
    IF ct = 0 /\ it = 0 THEN NoFeatures
    ELSE score_of_weights(cs, ct, is, it, max_score, scoring_weights(ct, it))

calculate_score(assessments, max_score) ==
    IF DOMAIN assessments = {} THEN NoFeatures
    ELSE score_of_counts(core_satisfied(assessments), core_total(assessments),
                         important_satisfied(assessments), important_total(assessments),
                         max_score)

\* ------------------------------------------------------------------------
\* The environment of one assessment run
\* ------------------------------------------------------------------------

\* bounds of the model
NumQuestions == 2
MaxCore == 4
MaxImportant == 2
MaxStudents == 2
MaxRoster == 3
MaxWorkers == 3

\* the writes of assessment.json in a sequence of calls of the tool
MaxSaves == 3

\* the calls of calculate_score that follow one another
MaxScoreCalls == 3

\* a checklist: exam.solution.Answer
Answer(core, details_important) == [core |-> core, details_important |-> details_important]

\* the question catalogue: the ids the questions store knows (no two of them
\* are the same in lower case or without spaces and dashes, so each search
\* loop of QuestionsStore.question finds at most one)
StoreIds == {"A-1", "B-1", "C-1", "E-1"}

\* ids an exam may write otherwise than the catalogue does: in lower case,
\* without the dash
VariantIds == {"a-1", "A1", "c-1"}

\* the ids an exam may name ("D-1" is unknown to the questions store)
QuestionIds == StoreIds \cup {"D-1"} \cup VariantIds

\* the characters of the ids
IdText ==
    ("A-1" :> <<"A", "-", "1">>) @@ ("B-1" :> <<"B", "-", "1">>)
      @@ ("C-1" :> <<"C", "-", "1">>) @@ ("D-1" :> <<"D", "-", "1">>)
      @@ ("E-1" :> <<"E", "-", "1">>) @@ ("a-1" :> <<"a", "-", "1">>)
      @@ ("A1" :> <<"A", "1">>) @@ ("c-1" :> <<"c", "-", "1">>)

\* the solution cache files: "A-1" has one Core and one ImportantDetail
\* feature, "B-1" the same Core feature twice, "E-1" an empty checklist,
\* "C-1" has no file
DIR_SOLUTIONS ==
    ("A-1" :> Answer(<<1>>, <<2>>)) @@ ("B-1" :> Answer(<<1, 1>>, <<>>))
        @@ ("E-1" :> Answer(<<>>, <<>>))

\* the score an exam gives to a question, in thousandths (the questions file
\* may give any number: B-1 has one with three decimal places)
QuestionScore ==
    ("A-1" :> 3000) @@ ("B-1" :> 1006) @@ ("C-1" :> 2500) @@ ("D-1" :> 2000) @@ ("E-1" :> 1000)
      @@ ("a-1" :> 3000) @@ ("A1" :> 3000) @@ ("c-1" :> 2500)

MaxScoreFloat(millis) == FromRatio(millis, 1000)

\* answer texts, as sequences of characters; the second one is a dash
\* after a space and a vertical tab (U+000B) and before a line feed
AnswerTexts == { <<>>, <<" ", "U+000B", "-", "\n">>, <<"a">> }

\* emails, as sequences of characters
EMAIL_AB == <<"a", "b", ".", "a", "b", "@", "a", "b", ".", "a", "b">>
EMAIL_AB_CAPS == <<"A", "b", ".", "A", "b", "@", "a", "b", ".", "a", "b">>
EMAIL_AB_LONG == EMAIL_AB \o <<".", "a">>
EMAIL_B == <<"b", "@", "a", "b", ".", "a", "b">>
EMAIL_B_LONG == EMAIL_B \o <<".", "a">>
EMAIL_B_DOT == EMAIL_B \o <<".">>
EMAIL_BA == <<"b", "a", "@", "a", "b", ".", "a", "b", ".", "a", "b">>

\* the max scores tried on calculate_score, in thousandths
MaxScores == {0, 1006, 3000, 5000, 10000}

StudentEmail == "student@example.org"

\* Python's None
None == [py |-> "None"]

\* the student_email argument of the tool while no call is in progress (a
\* sequence, as every email is; no email has this element)
NoCall == <<"None">>

\* the grades of one student as load_exam_from_yaml keeps them: the total in
\* hundredths, and the grade of each graded question in hundredths
Grades(total, by_question) == [total_grade |-> total, question_grades |-> by_question]

\* the original_grades an assessment is called with
OriginalGradesChoices == { None, Grades(1850, (1 :> 200)) }

\* ------------------------------------------------------------------------
\* State
\* ------------------------------------------------------------------------

VARIABLES
    sc_assessments,      \* calculate_score: the assessments argument
    sc_max_score,        \* calculate_score: the max_score argument
    sc_result,           \* calculate_score: the returned tuple, <<>> before the call
    sc_calls,            \* calculate_score: the calls so far, arguments and returned tuple
    sc_frame,            \* calculate_score: the locals of the call that is running, <<>> if none
    loaded_checklists,   \* AssessmentContext.loaded_checklists
    evaluations,         \* evaluations_dir: student -> saved assessment.json
    pc,                  \* position in assess_student_exam
    exam_questions,      \* argument: list of question infos
    student_responses,   \* argument: question number -> answer text
    qi,                  \* index of the question the loop is at
    assessments,         \* local: the list of question results
    total_score,         \* local (float)
    total_max_score,     \* local (float)
    findex,              \* assess_single_answer: index of the next feature
    feature_assessments_list,   \* assess_single_answer: local list
    feature_assessments_dict,   \* assess_single_answer: local dict
    llm_calls,           \* the calls of llm.invoke so far: question index, feature, outcome
    result,              \* the dict returned by assess_student_exam, <<>> if none
    student_email,       \* argument of Assessor.assess_student_exam
    original_grades,     \* argument: the grades the student got outside, None if not given
    exam_files,          \* the exam files of exam_date: questions and roster, None if unreadable
    exam_loaded,         \* state["exam_loaded"]
    checklist_tasks,     \* setup_node: the load_checklist tasks the gather still has to run
    exam_students,       \* state["exam_students"]: the student records, in roster order
    self_num_workers,    \* TrueParallelExamAssessment.num_workers
    student_batches,     \* state["student_batches"]
    state_num_workers,   \* state["num_workers"]
    bpc,                 \* the node of the graph the run is at
    workers,             \* the WorkerState of each Send, with the position of its loop
    tool_log,            \* the tool calls of the workers: worker, student, outcome
    state_assessments,   \* state["assessments"]
    state_result,        \* state["result"]
    loaded_exams,        \* ExamMCPServer.context.loaded_exams, in insertion order
    tool_student_email,  \* the student_email argument of the assess_student_exam tool
    student_data,        \* tool local: the matched student record, None if no match
    tool_result,         \* the dict the tool returns as JSON, <<>> before it returns
    store_writes         \* evaluations_dir: student -> times assessment.json was written

score_vars == <<sc_assessments, sc_max_score, sc_result, sc_calls, sc_frame>>

arg_vars == <<student_email, original_grades>>

exam_vars == <<loaded_checklists, evaluations, pc, exam_questions, student_responses,
               qi, assessments, total_score, total_max_score, findex,
               feature_assessments_list, feature_assessments_dict, llm_calls, result,
               arg_vars>>

tool_vars == <<loaded_exams, tool_student_email, student_data, tool_result, store_writes>>

batch_vars == <<exam_files, exam_loaded, checklist_tasks, exam_students, self_num_workers,
                student_batches, state_num_workers, bpc,
                workers, tool_log, state_assessments, state_result>>

outer_vars == <<tool_vars, batch_vars>>

vars == <<bpc, workers, pc,
          sc_assessments, sc_max_score, sc_result, sc_calls, sc_frame,
          loaded_checklists, evaluations, exam_questions, student_responses,
          qi, assessments, total_score, total_max_score, findex,
          feature_assessments_list, feature_assessments_dict, llm_calls, result,
          student_email, original_grades,
          loaded_exams, tool_student_email, student_data, tool_result, store_writes,
          exam_files, exam_loaded, checklist_tasks, exam_students, self_num_workers,
          student_batches, state_num_workers, tool_log, state_assessments,
          state_result>>

\* ------------------------------------------------------------------------
\* Helpers of the assessment
\* ------------------------------------------------------------------------

\* the characters str.strip() removes, those for which str.isspace() holds
\* (space, tab, line feed, carriage return, form feed, and the further ones
\* of Unicode); a character that cannot be written in a string of the model
\* is the element named by its code point
Whitespace ==
    {" ", "\t", "\n", "\r", "\f",
     "U+000B", "U+001C", "U+001D", "U+001E", "U+001F", "U+0085", "U+00A0",
     "U+1680", "U+2000", "U+2001", "U+2002", "U+2003", "U+2004", "U+2005",
     "U+2006", "U+2007", "U+2008", "U+2009", "U+200A", "U+2028", "U+2029",
     "U+202F", "U+205F", "U+3000"}

RECURSIVE lstrip(_)
lstrip(text) ==
    IF text # <<>> /\ Head(text) \in Whitespace THEN lstrip(Tail(text)) ELSE text

RECURSIVE rstrip(_)
rstrip(text) ==
    IF text # <<>> /\ text[Len(text)] \in Whitespace
    THEN rstrip(SubSeq(text, 1, Len(text) - 1))
    ELSE text

strip(text) == rstrip(lstrip(text))

\* str.lower on the letters the emails and the ids use
LowerCase ==
    ("A" :> "a") @@ ("B" :> "b") @@ ("C" :> "c") @@ ("D" :> "d") @@ ("E" :> "e")

lower(text) ==
    [i \in 1..Len(text) |-> IF text[i] \in DOMAIN LowerCase THEN LowerCase[text[i]] ELSE text[i]]

\* id.replace(" ", "").replace("-", "").lower()
id_normalized(text) == lower(SelectSeq(SelectSeq(text, LAMBDA c : c # " "), LAMBDA c : c # "-"))

\* QuestionsStore.question: the question with this id, else the one whose id
\* is the same in lower case, else the one whose id is the same without
\* spaces and dashes in lower case; else KeyError.  The question is given
\* by its id in the catalogue.
question(id) ==
    IF id \in StoreIds THEN [found |-> TRUE, id |-> id]
    ELSE IF \E qid \in StoreIds : lower(IdText[qid]) = lower(IdText[id])
    THEN [found |-> TRUE,
          id |-> CHOOSE qid \in StoreIds : lower(IdText[qid]) = lower(IdText[id])]
    ELSE IF \E qid \in StoreIds : id_normalized(IdText[qid]) = id_normalized(IdText[id])
    THEN [found |-> TRUE,
          id |-> CHOOSE qid \in StoreIds :
                    id_normalized(IdText[qid]) = id_normalized(IdText[id])]
    ELSE [found |-> FALSE, id |-> id]

\* load_cache(question): the solution file of the question, if there is one
has_solution(id) == question(id).found /\ question(id).id \in DOMAIN DIR_SOLUTIONS

solution(id) == DIR_SOLUTIONS[question(id).id]

\* not student_response or student_response.strip() == '-'
is_no_response(student_response) ==
    student_response = <<>> \/ strip(student_response) = <<"-">>

\* mutant: the ImportantDetail features come first
enumerate_features_m(answer) ==
    [i \in 1..(Len(answer.core) + Len(answer.details_important)) |->
        IF i <= Len(answer.details_important)
        THEN Feature(DETAILS_IMPORTANT, answer.details_important[i])
        ELSE Feature(CORE, answer.core[i - Len(answer.details_important)])]

\* the features of a checklist in the order they are judged
enumerate_features(answer) ==
    [i \in 1..(Len(answer.core) + Len(answer.details_important)) |->
        IF i <= Len(answer.core)
        THEN Feature(CORE, answer.core[i])
        ELSE Feature(DETAILS_IMPORTANT, answer.details_important[i - Len(answer.core)])]

\* d[k] = v on a dict
DictSet(d, k, v) == [x \in (DOMAIN d) \cup {k} |-> IF x = k THEN v ELSE d[x]]

\* mutant: a checklist without features counts as no checklist
resolve_checklist_m(id, cache) ==
    IF ~question(id).found THEN [found |-> FALSE, error |-> "KeyError", cache |-> cache]
    ELSE IF id \in DOMAIN cache /\ enumerate_features(cache[id]) # <<>>
    THEN [found |-> TRUE, error |-> "", cache |-> cache]
    ELSE IF has_solution(id) /\ enumerate_features(solution(id)) # <<>>
    THEN [found |-> TRUE, error |-> "", cache |-> DictSet(cache, id, solution(id))]
    ELSE [found |-> FALSE, error |-> "No checklist found", cache |-> cache]

\* questions_store.question, context.get_checklist, load_cache and
\* context.store_checklist for one question id: whether a checklist was
\* found, and the context cache afterwards (the cache is kept under the id
\* as the exam writes it, the solution file is that of the question found)
resolve_checklist(id, cache) ==
    IF ~question(id).found THEN [found |-> FALSE, error |-> "KeyError", cache |-> cache]
    ELSE IF id \in DOMAIN cache THEN [found |-> TRUE, error |-> "", cache |-> cache]
    ELSE IF has_solution(id)
    THEN [found |-> TRUE, error |-> "", cache |-> DictSet(cache, id, solution(id))]
    ELSE [found |-> FALSE, error |-> "No checklist found", cache |-> cache]

\* one call of llm.invoke, as the log keeps it
LlmCall(qindex, feature, outcome) ==
    [question |-> qindex, feature |-> feature, outcome |-> outcome]

\* the metadata assess_student_exam adds to the dict of assess_single_answer
with_metadata(assessment, question_info, response_text) ==
    assessment @@ [question_number |-> question_info.number,
                   question_id |-> question_info.id,
                   student_response |-> response_text]

\* the exams and responses an assessment is called with: up to NumQuestions
\* questions, no id twice; an id the exam writes otherwise than the catalogue
\* is alone or with "A-1"
ExamChoices ==
    UNION { { ids \in [1..n -> StoreIds \cup {"D-1"}] :
                 \A i, j \in 1..n : i # j => ids[i] # ids[j] }
            : n \in 0..NumQuestions }
      \cup { <<v>> : v \in VariantIds }
      \cup { <<v, "A-1">> : v \in VariantIds } \cup { <<"A-1", v>> : v \in VariantIds }

MakeExam(ids) ==
    [k \in 1..Len(ids) |->
        [number |-> k, id |-> ids[k], score |-> MaxScoreFloat(QuestionScore[ids[k]])]]

ResponseChoices(n) ==
    UNION { [S -> AnswerTexts] : S \in SUBSET (1..n) }

\* the question the loop is at
question_info == exam_questions[qi]

answered == question_info.number \in DOMAIN student_responses

checklist == loaded_checklists[question_info.id]

\* ------------------------------------------------------------------------
\* The judge and the evaluations directory
\* ------------------------------------------------------------------------

\* the judge of a run of the graph: on the answer "a" it may do anything,
\* on "b" it finds every feature, on "c" it raises, and in any other text
\* it finds no feature
run_judge(text) ==
    IF text = <<"a">> THEN {"satisfied", "unsatisfied", "raises"}
    ELSE IF text = <<"b">> THEN {"satisfied"}
    ELSE IF text = <<"c">> THEN {"raises"}
    ELSE {"unsatisfied"}

\* what llm.invoke can do when it is shown an answer: anything when the
\* Assessor or the tool is called on its own, what the judge of the run does
\* in a run of the graph
judge_outcomes(text) ==
    IF bpc = "off" THEN {"satisfied", "unsatisfied", "raises"}
    ELSE run_judge(text)

\* the evaluations directory of a run of the graph: the disk is full when
\* the assessment of Ab.Ab@ab.ab is written, the directory of ba@ab.ab.ab
\* cannot be made, summary.txt of b@ab.ab.a cannot be opened
run_store(email) ==
    IF email = EMAIL_AB_CAPS THEN "dump"
    ELSE IF email = EMAIL_BA THEN "before"
    ELSE IF email = EMAIL_B_LONG THEN "summary"
    ELSE "saved"

\* how _save_assessment_results can end for a student
store_outcomes(email) ==
    IF bpc = "off" THEN {"saved", "before", "dump", "summary"}
    ELSE {run_store(email)}

\* ------------------------------------------------------------------------
\* Assessor.assess_student_exam, with Assessor.assess_single_answer inlined
\* ------------------------------------------------------------------------

ExamIdle ==
    /\ pc = "idle"
    /\ exam_questions = <<>>
    /\ student_responses = <<>>
    /\ qi = 1
    /\ assessments = <<>>
    /\ total_score = FZero
    /\ total_max_score = FZero
    /\ findex = 1
    /\ feature_assessments_list = <<>>
    /\ feature_assessments_dict = <<>>
    /\ llm_calls = <<>>
    /\ result = <<>>
    /\ evaluations = <<>>
    /\ student_email = <<>>
    /\ original_grades = None

\* the call, original_grades being one of grades: the arguments are bound,
\* the locals initialised
call_assess_student_exam(grades) ==
    /\ pc = "idle"
    /\ \E ids \in ExamChoices :
         \E responses \in ResponseChoices(Len(ids)) :
            /\ exam_questions' = MakeExam(ids)
            /\ student_responses' = responses
    /\ student_email' = StudentEmail
    /\ original_grades' \in grades
    /\ pc' = "loop"
    /\ UNCHANGED <<loaded_checklists, evaluations, qi, assessments, total_score,
                   total_max_score, findex, feature_assessments_list,
                   feature_assessments_dict, llm_calls, result>>
    /\ UNCHANGED <<score_vars, outer_vars>>

\* the call without original_grades: the default None
assess_student_exam == call_assess_student_exam({None})

\* the call with original_grades given, None or a student's grades
assess_student_exam_graded == call_assess_student_exam(OriginalGradesChoices)

\* mutant: an unanswered question is skipped without a result
AnswerMissing_m ==
    /\ pc = "loop"
    /\ qi <= Len(exam_questions)
    /\ ~answered
    /\ total_max_score' = FAdd(total_max_score, question_info.score)
    /\ qi' = qi + 1
    /\ UNCHANGED <<loaded_checklists, evaluations, pc, exam_questions, student_responses,
                   assessments, total_score, findex, feature_assessments_list,
                   feature_assessments_dict, llm_calls, result>>
    /\ UNCHANGED <<score_vars, arg_vars, outer_vars>>

\* the question number is not in student_responses
AnswerMissing ==
    /\ pc = "loop"
    /\ qi <= Len(exam_questions)
    /\ ~answered
    /\ assessments' = Append(assessments,
           [question_number |-> question_info.number,
            question_id |-> question_info.id,
            status |-> "no_response",
            score |-> 0,
            max_score |-> question_info.score])
    /\ total_max_score' = FAdd(total_max_score, question_info.score)
    /\ qi' = qi + 1
    /\ UNCHANGED <<loaded_checklists, evaluations, pc, exam_questions, student_responses,
                   total_score, findex, feature_assessments_list,
                   feature_assessments_dict, llm_calls, result>>
    /\ UNCHANGED <<score_vars, arg_vars, outer_vars>>

\* mutant: the first error ends the loop
ChecklistError_m ==
    /\ pc = "loop"
    /\ qi <= Len(exam_questions)
    /\ answered
    /\ ~resolve_checklist(question_info.id, loaded_checklists).found
    /\ assessments' = Append(assessments,
           [question_number |-> question_info.number,
            question_id |-> question_info.id,
            status |-> "error",
            error |-> resolve_checklist(question_info.id, loaded_checklists).error,
            score |-> 0,
            max_score |-> question_info.score])
    /\ total_max_score' = FAdd(total_max_score, question_info.score)
    /\ qi' = Len(exam_questions) + 1
    /\ UNCHANGED <<loaded_checklists, evaluations, pc, exam_questions, student_responses,
                   total_score, findex, feature_assessments_list,
                   feature_assessments_dict, llm_calls, result>>
    /\ UNCHANGED <<score_vars, arg_vars, outer_vars>>

\* mutant: the error branch forgets the question's max score
ChecklistError_m2 ==
    /\ pc = "loop"
    /\ qi <= Len(exam_questions)
    /\ answered
    /\ ~resolve_checklist(question_info.id, loaded_checklists).found
    /\ assessments' = Append(assessments,
           [question_number |-> question_info.number,
            question_id |-> question_info.id,
            status |-> "error",
            error |-> resolve_checklist(question_info.id, loaded_checklists).error,
            score |-> 0,
            max_score |-> question_info.score])
    /\ total_max_score' = total_max_score
    /\ qi' = qi + 1
    /\ UNCHANGED <<loaded_checklists, evaluations, pc, exam_questions, student_responses,
                   total_score, findex, feature_assessments_list,
                   feature_assessments_dict, llm_calls, result>>
    /\ UNCHANGED <<score_vars, arg_vars, outer_vars>>

\* the question or its checklist cannot be found: the except branch of the loop
ChecklistError ==
    /\ pc = "loop"
    /\ qi <= Len(exam_questions)
    /\ answered
    /\ ~resolve_checklist(question_info.id, loaded_checklists).found
    /\ assessments' = Append(assessments,
           [question_number |-> question_info.number,
            question_id |-> question_info.id,
            status |-> "error",
            error |-> resolve_checklist(question_info.id, loaded_checklists).error,
            score |-> 0,
            max_score |-> question_info.score])
    /\ total_max_score' = FAdd(total_max_score, question_info.score)
    /\ qi' = qi + 1
    /\ UNCHANGED <<loaded_checklists, evaluations, pc, exam_questions, student_responses,
                   total_score, findex, feature_assessments_list,
                   feature_assessments_dict, llm_calls, result>>
    /\ UNCHANGED <<score_vars, arg_vars, outer_vars>>

\* the checklist is resolved and assess_single_answer returns no_response
NoResponseText ==
    /\ pc = "loop"
    /\ qi <= Len(exam_questions)
    /\ answered
    /\ resolve_checklist(question_info.id, loaded_checklists).found
    /\ is_no_response(student_responses[question_info.number])
    /\ loaded_checklists' = resolve_checklist(question_info.id, loaded_checklists).cache
    /\ assessments' = Append(assessments,
           with_metadata([status |-> "no_response", score |-> 0,
                          max_score |-> question_info.score],
                         question_info, student_responses[question_info.number]))
    /\ total_score' = FAdd(total_score, ScoreFloat(0))
    /\ total_max_score' = FAdd(total_max_score, question_info.score)
    /\ qi' = qi + 1
    /\ UNCHANGED <<evaluations, pc, exam_questions, student_responses, findex,
                   feature_assessments_list, feature_assessments_dict, llm_calls, result>>
    /\ UNCHANGED <<score_vars, arg_vars, outer_vars>>

\* the checklist is resolved and assess_single_answer enters its feature loop
BeginFeatures ==
    /\ pc = "loop"
    /\ qi <= Len(exam_questions)
    /\ answered
    /\ resolve_checklist(question_info.id, loaded_checklists).found
    /\ ~is_no_response(student_responses[question_info.number])
    /\ loaded_checklists' = resolve_checklist(question_info.id, loaded_checklists).cache
    /\ pc' = "judging"
    /\ findex' = 1
    /\ feature_assessments_list' = <<>>
    /\ feature_assessments_dict' = <<>>
    /\ UNCHANGED <<evaluations, exam_questions, student_responses, qi, assessments,
                   total_score, total_max_score, llm_calls, result>>
    /\ UNCHANGED <<score_vars, arg_vars, outer_vars>>

\* llm.invoke returns a verdict for the next feature
JudgeVerdict ==
    /\ pc = "judging"
    /\ findex <= Len(enumerate_features(checklist))
    /\ \E satisfied \in BOOLEAN :
         LET feature == enumerate_features(checklist)[findex]
         IN  /\ (IF satisfied THEN "satisfied" ELSE "unsatisfied")
                   \in judge_outcomes(student_responses[question_info.number])
             /\ llm_calls' = Append(llm_calls, LlmCall(qi, feature,
                                     IF satisfied THEN "satisfied" ELSE "unsatisfied"))
             /\ feature_assessments_list' = Append(feature_assessments_list,
                    [feature |-> feature.description,
                     feature_type |-> feature.type,
                     satisfied |-> satisfied])
             /\ feature_assessments_dict' = DictSet(feature_assessments_dict, feature, satisfied)
    /\ findex' = findex + 1
    /\ UNCHANGED <<loaded_checklists, evaluations, pc, exam_questions, student_responses,
                   qi, assessments, total_score, total_max_score, result>>
    /\ UNCHANGED <<score_vars, arg_vars, outer_vars>>

\* mutant: a fault of llm.invoke is taken as an unsatisfied verdict
JudgeRaises_m ==
    /\ pc = "judging"
    /\ findex <= Len(enumerate_features(checklist))
    /\ "raises" \in judge_outcomes(student_responses[question_info.number])
    /\ LET feature == enumerate_features(checklist)[findex]
       IN  /\ llm_calls' = Append(llm_calls, LlmCall(qi, feature, "raised"))
           /\ feature_assessments_list' = Append(feature_assessments_list,
                  [feature |-> feature.description,
                   feature_type |-> feature.type,
                   satisfied |-> FALSE])
           /\ feature_assessments_dict' = DictSet(feature_assessments_dict, feature, FALSE)
    /\ findex' = findex + 1
    /\ UNCHANGED <<loaded_checklists, evaluations, pc, exam_questions, student_responses,
                   qi, assessments, total_score, total_max_score, result>>
    /\ UNCHANGED <<score_vars, arg_vars, outer_vars>>

\* llm.invoke raises: the except branch of assess_single_answer
JudgeRaises ==
    /\ pc = "judging"
    /\ findex <= Len(enumerate_features(checklist))
    /\ "raises" \in judge_outcomes(student_responses[question_info.number])
    /\ llm_calls' = Append(llm_calls,
                            LlmCall(qi, enumerate_features(checklist)[findex], "raised"))
    /\ assessments' = Append(assessments,
           with_metadata([status |-> "error", error |-> "judge fault", score |-> 0,
                          max_score |-> question_info.score],
                         question_info, student_responses[question_info.number]))
    /\ total_score' = FAdd(total_score, ScoreFloat(0))
    /\ total_max_score' = FAdd(total_max_score, question_info.score)
    /\ qi' = qi + 1
    /\ pc' = "loop"
    /\ UNCHANGED <<loaded_checklists, evaluations, exam_questions, student_responses,
                   findex, feature_assessments_list, feature_assessments_dict, result>>
    /\ UNCHANGED <<score_vars, arg_vars, outer_vars>>

\* the assessed result from the tuple r of calculate_score
AssessedWith(r) ==
    /\ assessments' = Append(assessments,
           with_metadata([status |-> "assessed", score |-> r.score,
                          max_score |-> question_info.score,
                          statistics |-> r.stats,
                          breakdown |-> r.breakdown,
                          feature_assessments |-> feature_assessments_list],
                         question_info, student_responses[question_info.number]))
    /\ total_score' = FAdd(total_score, ScoreFloat(r.score))

\* every feature is judged: calculate_score and the assessed result
ScoreAnswer ==
    /\ pc = "judging"
    /\ findex > Len(enumerate_features(checklist))
    /\ AssessedWith(calculate_score(feature_assessments_dict, question_info.score))
    /\ total_max_score' = FAdd(total_max_score, question_info.score)
    /\ qi' = qi + 1
    /\ pc' = "loop"
    /\ UNCHANGED <<loaded_checklists, evaluations, exam_questions, student_responses,
                   findex, feature_assessments_list, feature_assessments_dict,
                   llm_calls, result>>
    /\ UNCHANGED <<score_vars, arg_vars, outer_vars>>

\* round((total_score / total_max_score * 100) if total_max_score > 0 else 0, 1),
\* in tenths
exam_percentage(total, total_max) ==
    IF FCmp(total_max, FZero) > 0
    THEN RoundDigits(FMul(FDiv(total, total_max), FHundred), 1)
    ELSE 0

\* bool(x) of a dict or None
truthy(x) == x # None /\ x # <<>>

\* mutant: a student with original grades gets their total as calculated score
BuildResult_m ==
    /\ pc = "loop"
    /\ qi > Len(exam_questions)
    /\ result' = [student_email |-> student_email,
                  calculated_score |-> IF truthy(original_grades)
                                       THEN ScoreFloat(original_grades.total_grade)
                                       ELSE total_score,
                  max_score |-> total_max_score,
                  percentage |-> exam_percentage(total_score, total_max_score),
                  scoring_system |-> "70% Core + 30% Important_Details",
                  assessments |-> assessments,
                  original_grades |-> IF truthy(original_grades) THEN original_grades
                                      ELSE <<>>]
    /\ pc' = "saving"
    /\ UNCHANGED <<loaded_checklists, evaluations, exam_questions, student_responses,
                   qi, assessments, total_score, total_max_score, findex,
                   feature_assessments_list, feature_assessments_dict, llm_calls>>
    /\ UNCHANGED <<score_vars, arg_vars, outer_vars>>

\* the loop is over: the result dict is built
BuildResult ==
    /\ pc = "loop"
    /\ qi > Len(exam_questions)
    /\ result' = [student_email |-> student_email,
                  calculated_score |-> total_score,
                  max_score |-> total_max_score,
                  percentage |-> exam_percentage(total_score, total_max_score),
                  scoring_system |-> "70% Core + 30% Important_Details",
                  assessments |-> assessments,
                  original_grades |-> IF truthy(original_grades) THEN original_grades
                                      ELSE <<>>]
    /\ pc' = "saving"
    /\ UNCHANGED <<loaded_checklists, evaluations, exam_questions, student_responses,
                   qi, assessments, total_score, total_max_score, findex,
                   feature_assessments_list, feature_assessments_dict, llm_calls>>
    /\ UNCHANGED <<score_vars, arg_vars, outer_vars>>

\* _save_assessment_results writes the files and the result is returned
SaveResults ==
    /\ pc = "saving"
    /\ "saved" \in store_outcomes(student_email)
    /\ evaluations' = DictSet(evaluations, student_email, result)
    /\ store_writes' = DictSet(store_writes, student_email,
                               IF student_email \in DOMAIN store_writes
                               THEN store_writes[student_email] + 1 ELSE 1)
    /\ result' = result @@ [saved_files |-> <<"assessment.json", "summary.txt">>]
    /\ pc' = "done"
    /\ UNCHANGED <<loaded_checklists, exam_questions, student_responses,
                   qi, assessments, total_score, total_max_score, findex,
                   feature_assessments_list, feature_assessments_dict, llm_calls>>
    /\ UNCHANGED <<loaded_exams, tool_student_email, student_data, tool_result>>
    /\ UNCHANGED <<score_vars, arg_vars, batch_vars>>

\* what assessment.json holds when json.dump raised part-way: a beginning of
\* the text of the result, written over what the file held
PartialFile(r) == [partial_of |-> r]

\* where _save_assessment_results can raise: before assessment.json is
\* opened (mkdir, open), in json.dump, or after the file is written (the
\* summary)
SaveFaults == {"before", "dump", "summary"}

\* _save_assessment_results raises: the exception leaves assess_student_exam;
\* assessment.json is as it was, cut short, or already written
SaveRaises ==
    /\ pc = "saving"
    /\ \E fault \in SaveFaults \cap store_outcomes(student_email) :
         IF fault = "before"
         THEN UNCHANGED <<evaluations, store_writes>>
         ELSE /\ evaluations' = DictSet(evaluations, student_email,
                                        IF fault = "dump" THEN PartialFile(result)
                                        ELSE result)
              /\ store_writes' = DictSet(store_writes, student_email,
                                         IF student_email \in DOMAIN store_writes
                                         THEN store_writes[student_email] + 1 ELSE 1)
    /\ result' = <<>>
    /\ pc' = "raised"
    /\ UNCHANGED <<loaded_checklists, exam_questions, student_responses,
                   qi, assessments, total_score, total_max_score, findex,
                   feature_assessments_list, feature_assessments_dict, llm_calls>>
    /\ UNCHANGED <<loaded_exams, tool_student_email, student_data, tool_result>>
    /\ UNCHANGED <<score_vars, arg_vars, batch_vars>>

\* ------------------------------------------------------------------------
\* The assess_student_exam tool of ExamMCPServer
\* ------------------------------------------------------------------------

\* text.startswith(prefix)
startswith(text, prefix) ==
    Len(prefix) <= Len(text) /\ SubSeq(text, 1, Len(prefix)) = prefix

\* text.rstrip('.')
RECURSIVE rstrip_dots(_)
rstrip_dots(text) ==
    IF text # <<>> /\ text[Len(text)] = "."
    THEN rstrip_dots(SubSeq(text, 1, Len(text) - 1))
    ELSE text

\* student_email.rstrip('.').strip()
student_email_clean(email) == strip(rstrip_dots(email))

\* the shortest query the prefix rule takes
MIN_PREFIX_LEN == 10

\* how many emails of each exam the not-found answer lists
SAMPLE_LEN == 5

\* mutant: the prefix rule takes a query of any length
email_matches_m(full_email, clean) ==
    \/ lower(full_email) = lower(clean)
    \/ startswith(lower(full_email), lower(clean))

\* the condition of the search loop on one roster entry
email_matches(full_email, clean) ==
    \/ lower(full_email) = lower(clean)
    \/ /\ Len(clean) >= MIN_PREFIX_LEN
       /\ startswith(lower(full_email), lower(clean))

\* the students of all loaded exams in the order the two loops visit them,
\* each with the questions of its exam
RECURSIVE roster_entries(_)
roster_entries(exams) ==
    IF exams = <<>> THEN <<>>
    ELSE [i \in 1..Len(exams[1].students) |->
             [student |-> exams[1].students[i], questions |-> exams[1].questions]]
         \o roster_entries(Tail(exams))

\* the indices of the entries the condition holds for
match_indices(entries, clean) ==
    {i \in 1..Len(entries) : email_matches(entries[i].student.email, clean)}

\* the search loops: the first entry the condition holds for, None if none
find_student(entries, clean) ==
    IF match_indices(entries, clean) = {} THEN None
    ELSE entries[CHOOSE i \in match_indices(entries, clean) :
                    \A j \in match_indices(entries, clean) : i <= j]

\* the first SAMPLE_LEN emails of each loaded exam
RECURSIVE available_students_sample(_)
available_students_sample(exams) ==
    IF exams = <<>> THEN <<>>
    ELSE [i \in 1..(IF Len(exams[1].students) < SAMPLE_LEN
                    THEN Len(exams[1].students) ELSE SAMPLE_LEN) |->
             exams[1].students[i].email]
         \o available_students_sample(Tail(exams))

Emails == {EMAIL_AB, EMAIL_AB_CAPS, EMAIL_AB_LONG, EMAIL_B, EMAIL_B_LONG}

\* the student_email arguments the tool is called with
Queries ==
    { EMAIL_AB, EMAIL_AB_CAPS,
      <<"A", "B", ".", "A", "B", "@", "A", "B", ".", "A", "B">>,
      EMAIL_AB \o <<".">>,
      <<" ">> \o EMAIL_AB \o <<".", " ">>,
      SubSeq(EMAIL_AB, 1, 10),
      SubSeq(EMAIL_AB, 1, 9),
      EMAIL_B,
      <<"B", "@", "A", "B", ".", "A", "B">>,
      SubSeq(EMAIL_B, 1, 6),
      <<"b", "a", "@", "a", "b", ".", "a", "b", ".", "a", "b">>,
      <<>> }

\* the questions of a loaded exam
LoadedQuestions == MakeExam(<<"A-1", "C-1">>)

\* the answers load_exam_from_yaml keeps for a student: none that is empty
\* or "-" after trimming
LoadedResponses ==
    (EMAIL_AB :> ((1 :> <<"a">>) @@ (2 :> <<"a">>)))
      @@ (EMAIL_AB_CAPS :> (2 :> <<" ">>))
      @@ (EMAIL_AB_LONG :> (1 :> <<"b">>))
      @@ (EMAIL_B :> <<>>)
      @@ (EMAIL_B_LONG :> (1 :> <<"c">>))
      @@ (EMAIL_B_DOT :> (1 :> <<"a">>))
      @@ (EMAIL_BA :> ((1 :> <<"b">>) @@ (2 :> <<"b">>)))

\* the record load_exam_from_yaml builds for a student
Student(email) ==
    [email |-> email,
     moodle_grade |-> IF email = EMAIL_AB THEN 1850 ELSE None,
     responses |-> LoadedResponses[email],
     original_grades |-> IF email = EMAIL_AB THEN Grades(1850, (1 :> 200)) ELSE <<>>]

\* rosters of up to MaxStudents students, no email twice
Rosters ==
    UNION { { r \in [1..n -> Emails] : \A i, j \in 1..n : i # j => r[i] # r[j] }
            : n \in 0..MaxStudents }

ExamData(roster) ==
    [questions |-> LoadedQuestions,
     students |-> [i \in 1..Len(roster) |-> Student(roster[i])]]

\* the loaded exams: none, one with the whole roster, or two that split it
LoadedExamsChoices ==
    {<<>>} \cup { <<ExamData(r)>> : r \in Rosters \ {<<>>} }
           \cup UNION { { <<ExamData(SubSeq(r, 1, k)), ExamData(SubSeq(r, k + 1, Len(r)))>>
                          : k \in 1..(Len(r) - 1) } : r \in Rosters }

RECURSIVE num_loaded_students(_)
num_loaded_students(exams) ==
    IF exams = <<>> THEN 0 ELSE Len(exams[1].students) + num_loaded_students(Tail(exams))

\* the tool is called with email and no student matches: the not-found
\* answer
tool_not_found(email) ==
    /\ pc = "idle"
    /\ tool_student_email = NoCall
    /\ find_student(roster_entries(loaded_exams), student_email_clean(email)) = None
    /\ tool_student_email' = email
    /\ tool_result' =
         [error |-> <<"Student not found", student_email_clean(email)>>,
          searched_for |-> student_email_clean(email),
          available_students_sample |-> available_students_sample(loaded_exams),
          hint |-> "Use exact email or at least first 10 characters",
          num_loaded_students |-> num_loaded_students(loaded_exams)]
    /\ UNCHANGED <<loaded_exams, student_data, store_writes>>
    /\ UNCHANGED <<score_vars, exam_vars>>

\* the tool is called with email and a student matches:
\* Assessor.assess_student_exam is called with the student's data
tool_assess(email) ==
    /\ pc = "idle"
    /\ tool_student_email = NoCall
    /\ find_student(roster_entries(loaded_exams), student_email_clean(email)) # None
    /\ tool_student_email' = email
    /\ student_data' =
         find_student(roster_entries(loaded_exams), student_email_clean(email)).student
    /\ exam_questions' =
         find_student(roster_entries(loaded_exams), student_email_clean(email)).questions
    /\ student_email' = student_data'.email
    /\ student_responses' = student_data'.responses
    /\ original_grades' = student_data'.original_grades
    /\ pc' = "loop"
    /\ UNCHANGED <<loaded_checklists, evaluations, qi, assessments, total_score,
                   total_max_score, findex, feature_assessments_list,
                   feature_assessments_dict, llm_calls, result>>
    /\ UNCHANGED <<loaded_exams, tool_result, store_writes>>
    /\ UNCHANGED score_vars

\* a call of the tool that finds no student
ToolNotFound ==
    /\ \E email \in Queries : tool_not_found(email)
    /\ UNCHANGED batch_vars

\* a call of the tool that finds a student
ToolAssess ==
    /\ \E email \in Queries : tool_assess(email)
    /\ UNCHANGED batch_vars

\* the assessment is back: moodle_grade is added and the result returned
ToolReturn ==
    /\ pc = "done"
    /\ tool_student_email # NoCall
    /\ tool_result = <<>>
    /\ tool_result' = result @@ [moodle_grade |-> student_data.moodle_grade]
    /\ UNCHANGED <<loaded_exams, tool_student_email, student_data, store_writes>>
    /\ UNCHANGED <<score_vars, exam_vars, batch_vars>>

\* the assessment raised: the except branch of the tool
ToolExcept ==
    /\ pc = "raised"
    /\ tool_student_email # NoCall
    /\ tool_result = <<>>
    /\ tool_result' = [error |-> "save fault", traceback |-> "Traceback"]
    /\ UNCHANGED <<loaded_exams, tool_student_email, student_data, store_writes>>
    /\ UNCHANGED <<score_vars, exam_vars, batch_vars>>

\* the tool has answered and is called once more, on the same server: the
\* locals of the call are new, the context and the evaluations directory are
\* those the earlier calls left
ToolAgain ==
    /\ tool_result # <<>>
    /\ Cardinality(UNION { {<<k, i>> : i \in 1..store_writes[k]} : k \in DOMAIN store_writes })
          < MaxSaves
    /\ tool_student_email' = NoCall
    /\ student_data' = None
    /\ tool_result' = <<>>
    /\ pc' = "idle"
    /\ exam_questions' = <<>>
    /\ student_responses' = <<>>
    /\ qi' = 1
    /\ assessments' = <<>>
    /\ total_score' = FZero
    /\ total_max_score' = FZero
    /\ findex' = 1
    /\ feature_assessments_list' = <<>>
    /\ feature_assessments_dict' = <<>>
    /\ llm_calls' = <<>>
    /\ result' = <<>>
    /\ student_email' = <<>>
    /\ original_grades' = None
    /\ UNCHANGED <<loaded_checklists, evaluations, loaded_exams, store_writes>>
    /\ UNCHANGED <<score_vars, batch_vars>>

\* ------------------------------------------------------------------------
\* TrueParallelExamAssessment: distribute, workers, report
\* ------------------------------------------------------------------------

\* len(students) // self.num_workers + 1
batch_size(students, num_workers) == (Len(students) \div num_workers) + 1

\* how many values range(0, n, step) has
range_len(n, step) == (n + step - 1) \div step

\* mutant: each slice starts one student too late
slice_batches_m(students, size) ==
    [k \in 1..range_len(Len(students), size) |->
        SubSeq(students, (k - 1) * size + 2,
               IF k * size < Len(students) THEN k * size ELSE Len(students))]

\* students[i:i + batch_size] for i in range(0, len(students), batch_size)
slice_batches(students, size) ==
    [k \in 1..range_len(Len(students), size) |->
        SubSeq(students, (k - 1) * size + 1,
               IF k * size < Len(students) THEN k * size ELSE Len(students))]

\* what the answer of the tool is: the result of an assessment, the
\* not-found answer, or the error answer of the tool's except branch
answer_kind(assessment_data) ==
    IF "error" \notin DOMAIN assessment_data THEN "assessed"
    ELSE IF "searched_for" \in DOMAIN assessment_data THEN "not_found"
    ELSE "save_fault"

\* mutant: the first fault drops what the worker has collected
results_after_m(results, worker_id, student, assessment_data) ==
    IF "error" \in DOMAIN assessment_data THEN <<>>
    ELSE Append(results, [worker_id |-> worker_id, student |-> student,
                          score |-> assessment_data.calculated_score,
                          max_score |-> assessment_data.max_score,
                          percentage |-> assessment_data.percentage])

\* the results list of a worker after the tool has answered for one student:
\* a row is appended unless the answer has an "error" key
results_after(results, worker_id, student, assessment_data) ==
    IF "error" \in DOMAIN assessment_data THEN results
    ELSE Append(results, [worker_id |-> worker_id, student |-> student,
                          score |-> assessment_data.calculated_score,
                          max_score |-> assessment_data.max_score,
                          percentage |-> assessment_data.percentage])

\* the load_checklist tool for one question id: the context cache afterwards
load_checklist(id, cache) ==
    IF id \in DOMAIN cache THEN cache
    ELSE IF ~question(id).found THEN cache
    ELSE IF has_solution(id) THEN DictSet(cache, id, solution(id))
    ELSE cache

\* the context cache when every task of the gather has run, one
\* load_checklist for each question, in the order of the questions
RECURSIVE load_checklists(_, _)
load_checklists(questions, cache) ==
    IF questions = <<>> THEN cache
    ELSE load_checklists(Tail(questions), load_checklist(questions[1].id, cache))

\* mutant: the gather is given no task
setup_node_m ==
    /\ bpc = "setup"
    /\ IF exam_files = None
       THEN /\ exam_loaded' = FALSE
            /\ bpc' = "distribute"
            /\ UNCHANGED <<loaded_exams, checklist_tasks>>
       ELSE /\ loaded_exams' = <<exam_files>>
            /\ checklist_tasks' = <<>>
            /\ bpc' = "gather"
            /\ UNCHANGED exam_loaded
    /\ UNCHANGED <<exam_files, exam_students, self_num_workers, student_batches,
                   state_num_workers, workers, tool_log, state_assessments, state_result>>
    /\ UNCHANGED <<score_vars, exam_vars>>
    /\ UNCHANGED <<tool_student_email, student_data, tool_result, store_writes>>

\* mutant: a load that fails leaves a student in the state
setup_node_m2 ==
    /\ bpc = "setup"
    /\ IF exam_files = None
       THEN /\ exam_loaded' = FALSE
            /\ exam_students' = <<[email |-> EMAIL_B]>>
            /\ bpc' = "distribute"
            /\ UNCHANGED <<loaded_exams, checklist_tasks>>
       ELSE /\ loaded_exams' = <<exam_files>>
            /\ checklist_tasks' = [k \in 1..Len(exam_files.questions) |->
                                      exam_files.questions[k].id]
            /\ bpc' = "gather"
            /\ UNCHANGED <<exam_loaded, exam_students>>
    /\ UNCHANGED <<exam_files, self_num_workers, student_batches,
                   state_num_workers, workers, tool_log, state_assessments, state_result>>
    /\ UNCHANGED <<score_vars, exam_vars>>
    /\ UNCHANGED <<tool_student_email, student_data, tool_result, store_writes>>

\* setup_node up to its await: load_exam_from_yaml puts the exam into the
\* context and a load_checklist task is made for each question; a load that
\* fails ends the node, the state without students
setup_node ==
    /\ bpc = "setup"
    /\ IF exam_files = None
       THEN /\ exam_loaded' = FALSE
            /\ bpc' = "distribute"
            /\ UNCHANGED <<loaded_exams, checklist_tasks>>
       ELSE /\ loaded_exams' = <<exam_files>>
            /\ checklist_tasks' = [k \in 1..Len(exam_files.questions) |->
                                      exam_files.questions[k].id]
            /\ bpc' = "gather"
            /\ UNCHANGED exam_loaded
    /\ UNCHANGED <<exam_files, exam_students, self_num_workers, student_batches,
                   state_num_workers, workers, tool_log, state_assessments, state_result>>
    /\ UNCHANGED <<score_vars, exam_vars>>
    /\ UNCHANGED <<tool_student_email, student_data, tool_result, store_writes>>

\* setup_node is suspended in asyncio.gather: the event loop runs the next
\* load_checklist task, in the order the tasks were made
load_checklist_task ==
    /\ bpc = "gather"
    /\ checklist_tasks # <<>>
    /\ loaded_checklists' = load_checklist(Head(checklist_tasks), loaded_checklists)
    /\ checklist_tasks' = Tail(checklist_tasks)
    /\ UNCHANGED <<exam_files, exam_loaded, exam_students, self_num_workers, student_batches,
                   state_num_workers, bpc, workers, tool_log, state_assessments,
                   state_result>>
    /\ UNCHANGED <<evaluations, pc, exam_questions, student_responses,
                   qi, assessments, total_score, total_max_score, findex,
                   feature_assessments_list, feature_assessments_dict, llm_calls, result,
                   arg_vars>>
    /\ UNCHANGED <<score_vars, tool_vars>>

\* every task of the gather is done: setup_node goes on and returns the
\* students of the exam
setup_return ==
    /\ bpc = "gather"
    /\ checklist_tasks = <<>>
    /\ exam_loaded' = TRUE
    /\ exam_students' = loaded_exams[1].students
    /\ bpc' = "distribute"
    /\ UNCHANGED <<exam_files, checklist_tasks, self_num_workers, student_batches,
                   state_num_workers, workers, tool_log, state_assessments, state_result>>
    /\ UNCHANGED <<score_vars, exam_vars, tool_vars>>

\* [s["email"] for s in state["exam_students"]]
student_emails(students) == [i \in 1..Len(students) |-> students[i].email]

\* the roster is split into batches
distribute_node ==
    /\ bpc = "distribute"
    /\ student_batches' =
          slice_batches(student_emails(exam_students),
                        batch_size(student_emails(exam_students), self_num_workers))
    /\ state_num_workers' = Len(student_batches')
    /\ bpc' = "dispatch"
    /\ UNCHANGED <<exam_files, exam_loaded, checklist_tasks, exam_students, self_num_workers,
                   workers, tool_log, state_assessments,
                   state_result>>
    /\ UNCHANGED <<score_vars, exam_vars, tool_vars>>

\* one Send, with its own WorkerState, for each batch
create_worker_sends ==
    /\ bpc = "dispatch"
    /\ workers' = [w \in 1..Len(student_batches) |->
                      [worker_id |-> w - 1, batch |-> student_batches[w], idx |-> 1,
                       calling |-> FALSE, results |-> <<>>, returned |-> FALSE]]
    /\ bpc' = "workers"
    /\ UNCHANGED <<exam_files, exam_loaded, checklist_tasks, exam_students, self_num_workers,
                   student_batches, state_num_workers,
                   tool_log, state_assessments, state_result>>
    /\ UNCHANGED <<score_vars, exam_vars, tool_vars>>

\* the coroutine of worker w can run: the workers are tasks of one event
\* loop, and between its start and its return worker_node awaits nothing
\* that suspends it (the tool, the Assessor, llm.invoke and the file writes
\* are called without a suspension), so a worker that has started keeps the
\* loop until it returns; which waiting worker the loop takes next is open
loop_runs(w) ==
    \A v \in 1..Len(workers) :
       (v # w /\ (workers[v].idx > 1 \/ workers[v].calling)) => workers[v].returned

\* worker_node, one pass of its loop: the assess_student_exam tool is called
\* with the next student of the batch; the steps of the call (the judge
\* calls, the write of the files) are those of the tool and of the Assessor
worker_call(w) ==
    /\ bpc = "workers"
    /\ loop_runs(w)
    /\ ~workers[w].returned
    /\ ~workers[w].calling
    /\ workers[w].idx <= Len(workers[w].batch)
    /\ \/ tool_not_found(workers[w].batch[workers[w].idx])
       \/ tool_assess(workers[w].batch[workers[w].idx])
    /\ workers' = [workers EXCEPT ![w].calling = TRUE]
    /\ UNCHANGED <<exam_files, exam_loaded, checklist_tasks, exam_students, self_num_workers,
                   student_batches, state_num_workers,
                   bpc, tool_log, state_assessments, state_result>>

\* worker_node, the same pass: the tool has answered, the answer is read
\* and the locals of the call are gone
worker_student(w) ==
    /\ bpc = "workers"
    /\ workers[w].calling
    /\ tool_result # <<>>
    /\ workers' = [workers EXCEPT
          ![w].results = results_after(@, workers[w].worker_id + 1,
                                       workers[w].batch[workers[w].idx], tool_result),
          ![w].idx = @ + 1,
          ![w].calling = FALSE]
    /\ tool_log' = Append(tool_log,
                          [worker |-> w,
                           student |-> workers[w].batch[workers[w].idx],
                           outcome |-> answer_kind(tool_result),
                           matched |-> IF student_data = None THEN <<>>
                                       ELSE <<student_data.email>>])
    /\ tool_student_email' = NoCall
    /\ student_data' = None
    /\ tool_result' = <<>>
    /\ pc' = "idle"
    /\ exam_questions' = <<>>
    /\ student_responses' = <<>>
    /\ qi' = 1
    /\ assessments' = <<>>
    /\ total_score' = FZero
    /\ total_max_score' = FZero
    /\ findex' = 1
    /\ feature_assessments_list' = <<>>
    /\ feature_assessments_dict' = <<>>
    /\ llm_calls' = <<>>
    /\ result' = <<>>
    /\ student_email' = <<>>
    /\ original_grades' = None
    /\ UNCHANGED <<exam_files, exam_loaded, checklist_tasks, exam_students, self_num_workers,
                   student_batches, state_num_workers,
                   bpc, state_assessments, state_result>>
    /\ UNCHANGED <<loaded_checklists, evaluations, loaded_exams, store_writes>>
    /\ UNCHANGED score_vars

\* mutant: the worker may return after its first student
worker_return_m(w) ==
    /\ bpc = "workers"
    /\ loop_runs(w)
    /\ ~workers[w].returned
    /\ ~workers[w].calling
    /\ workers[w].idx > 1
    /\ workers' = [workers EXCEPT ![w].returned = TRUE]
    /\ UNCHANGED <<exam_files, exam_loaded, checklist_tasks, exam_students, self_num_workers,
                   student_batches, state_num_workers,
                   bpc, tool_log, state_assessments, state_result>>
    /\ UNCHANGED <<score_vars, exam_vars, tool_vars>>

\* worker_node, after its loop: the results are returned
worker_return(w) ==
    /\ bpc = "workers"
    /\ loop_runs(w)
    /\ ~workers[w].returned
    /\ workers[w].idx > Len(workers[w].batch)
    /\ workers' = [workers EXCEPT ![w].returned = TRUE]
    /\ UNCHANGED <<exam_files, exam_loaded, checklist_tasks, exam_students, self_num_workers,
                   student_batches, state_num_workers,
                   bpc, tool_log, state_assessments, state_result>>
    /\ UNCHANGED <<score_vars, exam_vars, tool_vars>>

\* operator.add over the lists the workers returned, in the order of the Sends
RECURSIVE merged_results(_)
merged_results(ws) ==
    IF ws = <<>> THEN <<>> ELSE ws[1].results \o merged_results(Tail(ws))

\* mutant: the graph goes on to the report when one worker has returned
join_workers_m ==
    /\ bpc = "workers"
    /\ \E w \in 1..Len(workers) : workers[w].returned
    /\ \A w \in 1..Len(workers) : ~workers[w].calling
    /\ state_assessments' = merged_results(workers)
    /\ bpc' = "report"
    /\ UNCHANGED <<exam_files, exam_loaded, checklist_tasks, exam_students, self_num_workers,
                   student_batches, state_num_workers,
                   workers, tool_log, state_result>>
    /\ UNCHANGED <<score_vars, exam_vars, tool_vars>>

\* every worker has returned: their lists are added to state["assessments"]
\* and the graph goes on to the report
join_workers ==
    /\ bpc = "workers"
    /\ \A w \in 1..Len(workers) : workers[w].returned
    /\ state_assessments' = merged_results(workers)
    /\ bpc' = "report"
    /\ UNCHANGED <<exam_files, exam_loaded, checklist_tasks, exam_students, self_num_workers,
                   student_batches, state_num_workers,
                   workers, tool_log, state_result>>
    /\ UNCHANGED <<score_vars, exam_vars, tool_vars>>

\* there is no Send: the graph has no worker to run, and the run may end
\* without the report
no_workers ==
    /\ bpc = "workers"
    /\ workers = <<>>
    /\ bpc' = "end"
    /\ UNCHANGED <<exam_files, exam_loaded, checklist_tasks, exam_students, self_num_workers,
                   student_batches, state_num_workers,
                   workers, tool_log, state_assessments, state_result>>
    /\ UNCHANGED <<score_vars, exam_vars, tool_vars>>

\* ord() of the characters of the emails
Ord == ("." :> 46) @@ ("@" :> 64) @@ ("A" :> 65) @@ ("a" :> 97) @@ ("b" :> 98)

\* a < b of two str: the first place they differ at decides, and a str is
\* above each of its proper beginnings
RECURSIVE str_lt(_, _)
str_lt(a, b) ==
    IF b = <<>> THEN FALSE
    ELSE IF a = <<>> THEN TRUE
    ELSE IF Head(a) # Head(b) THEN Ord[Head(a)] < Ord[Head(b)]
    ELSE str_lt(Tail(a), Tail(b))

\* a row put into a list sorted by student, after the rows that are not
\* greater
insert_by_student(rows, row) ==
    SubSeq(rows, 1, Cardinality({i \in 1..Len(rows) : ~str_lt(row.student, rows[i].student)}))
      \o <<row>>
      \o SubSeq(rows,
                Cardinality({i \in 1..Len(rows) : ~str_lt(row.student, rows[i].student)}) + 1,
                Len(rows))

\* mutant: the merged list is reported as it is
sorted_by_student_m(rows) == rows

\* sorted(assessments, key=lambda x: x["student"])
RECURSIVE sorted_by_student(_)
sorted_by_student(rows) ==
    IF rows = <<>> THEN <<>>
    ELSE insert_by_student(sorted_by_student(SubSeq(rows, 1, Len(rows) - 1)), rows[Len(rows)])

\* sum(scores): the floats are added from the left
RECURSIVE sum_scores(_)
sum_scores(rows) ==
    IF rows = <<>> THEN FZero
    ELSE FAdd(sum_scores(SubSeq(rows, 1, Len(rows) - 1)), rows[Len(rows)].score)

\* sum(scores) / len(scores) written with two decimal places, in hundredths
mean_text(rows) == RoundDigits(FDiv(sum_scores(rows), FromRatio(Len(rows), 1)), 2)

\* max(scores)
max_score_of(rows) ==
    CHOOSE x \in {rows[i].score : i \in 1..Len(rows)} :
       \A i \in 1..Len(rows) : FCmp(x, rows[i].score) >= 0

\* min(scores)
min_score_of(rows) ==
    CHOOSE x \in {rows[i].score : i \in 1..Len(rows)} :
       \A i \in 1..Len(rows) : FCmp(x, rows[i].score) <= 0

\* the rows of each worker that has a row
worker_stats(rows) ==
    [wid \in {rows[i].worker_id : i \in 1..Len(rows)} |->
        SelectSeq(rows, LAMBDA a : a.worker_id = wid)]

\* how many characters of an email the report shows
PREVIEW_LEN == 40

\* the lines of a student in the report: the start of the email, the score
\* with two decimal places, max_score as it is, the percentage with one
\* place, the worker
student_line(a) ==
    [student |-> SubSeq(a.student, 1,
                        IF Len(a.student) < PREVIEW_LEN THEN Len(a.student) ELSE PREVIEW_LEN),
     score |-> RoundDigits(a.score, 2),
     max_score |-> a.max_score,
     percentage |-> a.percentage,
     worker_id |-> a.worker_id]

\* what the report text says: the workers, the number of students, the
\* score statistics with two decimal places (in hundredths), a line for each
\* worker and one for each student
report_text(rows, num_workers) ==
    [workers |-> num_workers,
     students_total |-> Len(rows),
     avg_score |-> mean_text(rows),
     max_score |-> RoundDigits(max_score_of(rows), 2),
     min_score |-> RoundDigits(min_score_of(rows), 2),
     worker_lines |-> [wid \in DOMAIN worker_stats(rows) |->
                          [students |-> Len(worker_stats(rows)[wid]),
                           avg |-> mean_text(worker_stats(rows)[wid])]],
     student_lines |-> [i \in 1..Len(rows) |-> student_line(rows[i])]]

\* the final report
report_node ==
    /\ bpc = "report"
    /\ state_result' = IF state_assessments = <<>>
                       THEN [text |-> "Nessuna valutazione completata"]
                       ELSE report_text(sorted_by_student(state_assessments),
                                        state_num_workers)
    /\ bpc' = "end"
    /\ UNCHANGED <<exam_files, exam_loaded, checklist_tasks, exam_students, self_num_workers,
                   student_batches, state_num_workers,
                   workers, tool_log, state_assessments>>
    /\ UNCHANGED <<score_vars, exam_vars, tool_vars>>

\* the orders the students of a run are read in: a student after one whose
\* email starts with theirs; a student whose email ends in a dot; students
\* whose files cannot be written, and one after a student whose email is
\* theirs in other case; students in ascending order, the third one's
\* files not writable
RunOrders ==
    { <<EMAIL_AB_LONG, EMAIL_AB, EMAIL_B, EMAIL_AB_CAPS, EMAIL_BA>>,
      <<EMAIL_B_DOT, EMAIL_AB, EMAIL_AB_LONG, EMAIL_B, EMAIL_BA>>,
      <<EMAIL_AB_CAPS, EMAIL_B_LONG, EMAIL_BA, EMAIL_AB, EMAIL_B>>,
      <<EMAIL_AB, EMAIL_B, EMAIL_BA, EMAIL_AB_LONG, EMAIL_B_LONG>> }

\* the rosters a run starts with: the first students of an order, up to
\* MaxRoster of them
BatchRosters ==
    { SubSeq(r, 1, IF n < Len(r) THEN n ELSE Len(r)) : r \in RunOrders, n \in 0..MaxRoster }

\* the questions of the exams a run loads: one with a checklist and one
\* without a solution file, or one unknown to the questions store and one
\* with an empty checklist
SetupExams == { <<"A-1", "C-1">>, <<"D-1", "E-1">> }

\* what load_exam_from_yaml reads for a roster and the ids of the questions
ExamFiles(ids, roster) ==
    [questions |-> MakeExam(ids),
     students |-> [i \in 1..Len(roster) |-> Student(roster[i])]]

\* the exam files of a run: unreadable, or an exam with a roster
ExamFilesChoices ==
    {None} \cup { ExamFiles(ids, roster) : ids \in SetupExams, roster \in BatchRosters }

\* ------------------------------------------------------------------------
\* calculate_score called on its own
\* ------------------------------------------------------------------------

\* a dict of ct Core and it ImportantDetail features, those in sat satisfied
MakeAssessments(ct, it, sat) ==
    [f \in {Feature(CORE, i) : i \in 1..ct} \cup {Feature(DETAILS_IMPORTANT, i) : i \in 1..it}
        |-> f \in sat]

AssessmentChoices ==
    UNION { { MakeAssessments(ct, it, sat) :
                sat \in SUBSET ({Feature(CORE, i) : i \in 1..ct}
                                \cup {Feature(DETAILS_IMPORTANT, i) : i \in 1..it}) }
            : ct \in 0..MaxCore, it \in 0..MaxImportant }

\* calculate_score called and returned, as one step
ScoreCall ==
    /\ sc_result = <<>>
    /\ sc_result' = calculate_score(sc_assessments, sc_max_score)
    /\ sc_calls' = Append(sc_calls, [assessments |-> sc_assessments,
                                     max_score |-> sc_max_score, result |-> sc_result'])
    /\ UNCHANGED <<sc_assessments, sc_max_score, sc_frame>>
    /\ UNCHANGED <<exam_vars, outer_vars>>

\* the arguments of the calls that follow one another on one Assessor
RescoreChoices ==
    { <<MakeAssessments(0, 0, {}), MaxScoreFloat(1006)>>,
      <<MakeAssessments(1, 1, {Feature(CORE, 1)}), MaxScoreFloat(1006)>>,
      <<MakeAssessments(1, 1, {Feature(CORE, 1)}), MaxScoreFloat(3000)>>,
      <<MakeAssessments(2, 0, {Feature(CORE, 2)}), MaxScoreFloat(3000)>> }

\* the orders a dict with these keys can have been filled in: a dict keeps
\* its keys in insertion order, and two dicts are equal whatever the order
ItemOrders(verdicts) ==
    { items \in [1..Cardinality(DOMAIN verdicts) -> DOMAIN verdicts] :
         \A i, j \in DOMAIN items : i # j => items[i] # items[j] }

\* sum(1 for f, a in assessments.items() if f.type == type [and a.satisfied]):
\* the items are gone through in the order of the dict, from count 0
RECURSIVE count_items(_, _, _, _, _)
count_items(count, items, verdicts, type, satisfied_only) ==
    IF items = <<>> THEN count
    ELSE count_items(IF /\ Head(items).type = type
                        /\ (satisfied_only => verdicts[Head(items)])
                     THEN count + 1 ELSE count,
                     Tail(items), verdicts, type, satisfied_only)

\* what a call of calculate_score leaves in the log of calls
ScoreLogged(items, returned) ==
    [assessments |-> sc_assessments, max_score |-> sc_max_score, items |-> items,
     context |-> loaded_checklists, result |-> returned]

\* calculate_score is called with an empty dict: it returns at once
calculate_score_empty ==
    /\ sc_result = <<>>
    /\ sc_frame = <<>>
    /\ DOMAIN sc_assessments = {}
    /\ sc_result' = NoFeatures
    /\ sc_calls' = Append(sc_calls, ScoreLogged(<<>>, NoFeatures))
    /\ UNCHANGED <<sc_assessments, sc_max_score, sc_frame>>
    /\ UNCHANGED <<exam_vars, outer_vars>>

\* calculate_score is called with a dict that has items, in one of the
\* orders the dict can have: the call has its own locals, none set yet
calculate_score_call ==
    /\ sc_result = <<>>
    /\ sc_frame = <<>>
    /\ DOMAIN sc_assessments # {}
    /\ \E items \in ItemOrders(sc_assessments) :
          sc_frame' = [at |-> "count", items |-> items]
    /\ UNCHANGED <<sc_assessments, sc_max_score, sc_result, sc_calls>>
    /\ UNCHANGED <<exam_vars, outer_vars>>

\* mutant: the counts go on from those of the call before, as counters kept
\* on the Assessor would
calculate_score_counts_m ==
    /\ sc_frame # <<>>
    /\ sc_frame.at = "count"
    /\ LET before == IF sc_calls # <<>> /\ sc_calls[Len(sc_calls)].result.stats # <<>>
                     THEN sc_calls[Len(sc_calls)].result.stats
                     ELSE [core |-> [total |-> 0, satisfied |-> 0],
                           details_important |-> [total |-> 0, satisfied |-> 0]]
       IN  sc_frame' =
             [at |-> "score",
              items |-> sc_frame.items,
              core_total |-> count_items(before.core.total, sc_frame.items,
                                         sc_assessments, CORE, FALSE),
              core_satisfied |-> count_items(before.core.satisfied, sc_frame.items,
                                             sc_assessments, CORE, TRUE),
              important_total |-> count_items(before.details_important.total,
                                              sc_frame.items, sc_assessments,
                                              DETAILS_IMPORTANT, FALSE),
              important_satisfied |-> count_items(before.details_important.satisfied,
                                                  sc_frame.items, sc_assessments,
                                                  DETAILS_IMPORTANT, TRUE)]
    /\ UNCHANGED <<sc_assessments, sc_max_score, sc_result, sc_calls>>
    /\ UNCHANGED <<exam_vars, outer_vars>>

\* calculate_score counts the features of each type and the satisfied ones,
\* each count a pass of its own over the dict
calculate_score_counts ==
    /\ sc_frame # <<>>
    /\ sc_frame.at = "count"
    /\ sc_frame' =
          [at |-> "score",
           items |-> sc_frame.items,
           core_total |-> count_items(0, sc_frame.items, sc_assessments, CORE, FALSE),
           core_satisfied |-> count_items(0, sc_frame.items, sc_assessments, CORE, TRUE),
           important_total |-> count_items(0, sc_frame.items, sc_assessments,
                                           DETAILS_IMPORTANT, FALSE),
           important_satisfied |-> count_items(0, sc_frame.items, sc_assessments,
                                               DETAILS_IMPORTANT, TRUE)]
    /\ UNCHANGED <<sc_assessments, sc_max_score, sc_result, sc_calls>>
    /\ UNCHANGED <<exam_vars, outer_vars>>

\* calculate_score, from the weights to the return: the tuple is made from
\* the counts and max_score, and the locals of the call are gone
calculate_score_return ==
    /\ sc_frame # <<>>
    /\ sc_frame.at = "score"
    /\ sc_result' = score_of_counts(sc_frame.core_satisfied, sc_frame.core_total,
                                    sc_frame.important_satisfied,
                                    sc_frame.important_total, sc_max_score)
    /\ sc_calls' = Append(sc_calls, ScoreLogged(sc_frame.items, sc_result'))
    /\ sc_frame' = <<>>
    /\ UNCHANGED <<sc_assessments, sc_max_score>>
    /\ UNCHANGED <<exam_vars, outer_vars>>

\* calculate_score has returned and is to be called once more on the same
\* Assessor, with arguments that may be those of an earlier call; the
\* checklist cache of the Assessor's context may have changed meanwhile
ScoreNext ==
    /\ sc_result # <<>>
    /\ Len(sc_calls) < MaxScoreCalls
    /\ \E args \in RescoreChoices :
          /\ sc_assessments' = args[1]
          /\ sc_max_score' = args[2]
    /\ sc_result' = <<>>
    /\ loaded_checklists' \in {<<>>, DIR_SOLUTIONS}
    /\ UNCHANGED <<sc_calls, sc_frame>>
    /\ UNCHANGED <<evaluations, pc, exam_questions, student_responses,
                   qi, assessments, total_score, total_max_score, findex,
                   feature_assessments_list, feature_assessments_dict, llm_calls, result,
                   arg_vars>>
    /\ UNCHANGED outer_vars

\* ------------------------------------------------------------------------
\* Specifications
\* ------------------------------------------------------------------------

ScoreIdle ==
    /\ sc_assessments = <<>>
    /\ sc_max_score = FZero
    /\ sc_result = <<>>
    /\ sc_calls = <<>>
    /\ sc_frame = <<>>

\* no exam is loaded and the tool is not called
ToolIdle ==
    /\ loaded_exams = <<>>
    /\ tool_student_email = NoCall
    /\ student_data = None
    /\ tool_result = <<>>
    /\ store_writes = <<>>

\* the graph of the multi-agent client is not run
BatchIdle ==
    /\ exam_files = None
    /\ exam_loaded = FALSE
    /\ checklist_tasks = <<>>
    /\ exam_students = <<>>
    /\ self_num_workers = 1
    /\ student_batches = <<>>
    /\ state_num_workers = 1
    /\ bpc = "off"
    /\ workers = <<>>
    /\ tool_log = <<>>
    /\ state_assessments = <<>>
    /\ state_result = <<>>

\* one run of assess_student_exam, the checklist cache empty or preloaded
Init ==
    /\ ScoreIdle
    /\ ExamIdle
    /\ ToolIdle
    /\ BatchIdle
    /\ loaded_checklists \in {<<>>, DIR_SOLUTIONS}

Next ==
    \/ assess_student_exam
    \/ AnswerMissing
    \/ ChecklistError
    \/ NoResponseText
    \/ BeginFeatures
    \/ JudgeVerdict
    \/ JudgeRaises
    \/ ScoreAnswer
    \/ BuildResult
    \/ SaveResults
    \/ SaveRaises

Spec == Init /\ [][Next]_vars

\* calculate_score on every dict and max score within the bounds
InitScore ==
    /\ sc_assessments \in AssessmentChoices
    /\ sc_max_score \in {MaxScoreFloat(m) : m \in MaxScores}
    /\ sc_result = <<>>
    /\ sc_calls = <<>>
    /\ sc_frame = <<>>
    /\ ExamIdle
    /\ ToolIdle
    /\ BatchIdle
    /\ loaded_checklists = <<>>

NextScore == ScoreCall

SpecScore == InitScore /\ [][NextScore]_vars

\* calls of calculate_score one after the other
InitRescore ==
    /\ \E args \in RescoreChoices :
          /\ sc_assessments = args[1]
          /\ sc_max_score = args[2]
    /\ sc_result = <<>>
    /\ sc_calls = <<>>
    /\ sc_frame = <<>>
    /\ ExamIdle
    /\ ToolIdle
    /\ BatchIdle
    /\ loaded_checklists = <<>>

NextRescore ==
    \/ calculate_score_empty
    \/ calculate_score_call
    \/ calculate_score_counts
    \/ calculate_score_return
    \/ ScoreNext

SpecRescore == InitRescore /\ [][NextRescore]_vars

\* one run of assess_student_exam with original_grades given, on a new context
InitGrades ==
    /\ ScoreIdle
    /\ ExamIdle
    /\ ToolIdle
    /\ BatchIdle
    /\ loaded_checklists = <<>>

NextGrades ==
    \/ assess_student_exam_graded
    \/ AnswerMissing
    \/ ChecklistError
    \/ NoResponseText
    \/ BeginFeatures
    \/ JudgeVerdict
    \/ JudgeRaises
    \/ ScoreAnswer
    \/ BuildResult
    \/ SaveResults
    \/ SaveRaises

SpecGrades == InitGrades /\ [][NextGrades]_vars

\* one call of the assess_student_exam tool on the loaded exams; the answers
\* of a loaded exam are never empty or "-", so the no_response branch of
\* assess_single_answer is not taken
InitTool ==
    /\ ScoreIdle
    /\ ExamIdle
    /\ loaded_checklists = <<>>
    /\ loaded_exams \in LoadedExamsChoices
    /\ tool_student_email = NoCall
    /\ student_data = None
    /\ tool_result = <<>>
    /\ store_writes = <<>>
    /\ BatchIdle

NextTool ==
    \/ ToolNotFound
    \/ ToolAssess
    \/ AnswerMissing
    \/ ChecklistError
    \/ BeginFeatures
    \/ JudgeVerdict
    \/ JudgeRaises
    \/ ScoreAnswer
    \/ BuildResult
    \/ SaveResults
    \/ SaveRaises
    \/ ToolReturn
    \/ ToolExcept

SpecTool == InitTool /\ [][NextTool]_vars

\* the exams loaded for a sequence of calls: a student whose email is the
\* start of that of the next one, a student whose email differs in case from a
\* query, two exams of one student each
StoreExamsChoices ==
    { <<ExamData(<<EMAIL_AB, EMAIL_AB_LONG>>)>>,
      <<ExamData(<<EMAIL_AB_CAPS, EMAIL_B>>)>>,
      <<ExamData(<<EMAIL_B_LONG>>), ExamData(<<EMAIL_B>>)>> }

InitStore ==
    /\ InitTool
    /\ loaded_exams \in StoreExamsChoices

\* calls of the assess_student_exam tool one after the other on one server
NextStore ==
    \/ NextTool
    \/ ToolAgain

SpecStore == InitStore /\ [][NextStore]_vars

\* one run of the graph on a new server: nothing is loaded, the initial
\* state has num_workers workers asked for
InitBatch ==
    /\ ScoreIdle
    /\ ExamIdle
    /\ ToolIdle
    /\ loaded_checklists = <<>>
    /\ exam_files \in ExamFilesChoices
    /\ exam_loaded = FALSE
    /\ checklist_tasks = <<>>
    /\ exam_students = <<>>
    /\ self_num_workers \in 1..MaxWorkers
    /\ student_batches = <<>>
    /\ state_num_workers = self_num_workers
    /\ bpc = "setup"
    /\ workers = <<>>
    /\ tool_log = <<>>
    /\ state_assessments = <<>>
    /\ state_result = <<>>

NextBatch ==
    \/ setup_node
    \/ load_checklist_task
    \/ setup_return
    \/ distribute_node
    \/ create_worker_sends
    \/ \E w \in 1..Len(workers) : worker_call(w)
    \/ AnswerMissing
    \/ ChecklistError
    \/ BeginFeatures
    \/ JudgeVerdict
    \/ JudgeRaises
    \/ ScoreAnswer
    \/ BuildResult
    \/ SaveResults
    \/ SaveRaises
    \/ ToolReturn
    \/ ToolExcept
    \/ \E w \in 1..Len(workers) : worker_student(w)
    \/ \E w \in 1..Len(workers) : worker_return(w)
    \/ join_workers
    \/ no_workers
    \/ report_node

SpecBatch == InitBatch /\ [][NextBatch]_vars

\* the same run with the event loop going on as long as a node, a task or
\* a worker can take a step, every judge call and every write returning or
\* raising in the end; the rosters are those in ascending order of the
\* first exam
InitBatchFair ==
    /\ InitBatch
    /\ exam_files # None =>
          /\ exam_files.questions = MakeExam(<<"A-1", "C-1">>)
          /\ \A i, j \in 1..Len(exam_files.students) :
                i < j => str_lt(exam_files.students[i].email, exam_files.students[j].email)

\* the steps of a run that add or round floats, and the states in which one
\* of them can be taken: each sets pc, qi or bpc to another value, so it is
\* enabled exactly when its conditions on the current state hold
FloatSteps ==
    \/ AnswerMissing
    \/ ChecklistError
    \/ JudgeRaises
    \/ ScoreAnswer
    \/ BuildResult
    \/ report_node

FloatReady ==
    \/ /\ pc = "loop"
       /\ qi <= Len(exam_questions)
       /\ \/ ~answered
          \/ ~resolve_checklist(question_info.id, loaded_checklists).found
    \/ /\ pc = "judging"
       /\ findex <= Len(enumerate_features(checklist))
       /\ "raises" \in judge_outcomes(student_responses[question_info.number])
    \/ /\ pc = "judging"
       /\ findex > Len(enumerate_features(checklist))
    \/ /\ pc = "loop"
       /\ qi > Len(exam_questions)
    \/ bpc = "report"

\* the other steps of a run
PlainSteps ==
    \/ setup_node
    \/ load_checklist_task
    \/ setup_return
    \/ distribute_node
    \/ create_worker_sends
    \/ \E w \in 1..Len(workers) : worker_call(w)
    \/ BeginFeatures
    \/ JudgeVerdict
    \/ SaveResults
    \/ SaveRaises
    \/ ToolReturn
    \/ ToolExcept
    \/ \E w \in 1..Len(workers) : worker_student(w)
    \/ \E w \in 1..Len(workers) : worker_return(w)
    \/ join_workers
    \/ no_workers

\* weak fairness of the steps of the run. For FloatSteps it is written out,
\* WF_vars(A) being []<>(~ENABLED <<A>>_vars) \/ []<><<A>>_vars, with FloatReady
\* for ENABLED <<FloatSteps>>_vars, so that the float arithmetic is evaluated
\* on the steps taken only
SpecBatchFair ==
    /\ InitBatchFair
    /\ [][NextBatch]_vars
    /\ WF_vars(PlainSteps)
    /\ ([]<>(~FloatReady) \/ []<><<FloatSteps>>_vars)

\* ------------------------------------------------------------------------
\* Properties of calculate_score (checked under SpecScore)
\* ------------------------------------------------------------------------

ScoreReturned == sc_result # <<>>

NumCore == Cardinality({f \in DOMAIN sc_assessments : f.type = CORE})
NumCoreSat == Cardinality({f \in DOMAIN sc_assessments : f.type = CORE /\ sc_assessments[f]})
NumImportant == Cardinality({f \in DOMAIN sc_assessments : f.type = DETAILS_IMPORTANT})
NumImportantSat ==
    Cardinality({f \in DOMAIN sc_assessments : f.type = DETAILS_IMPORTANT /\ sc_assessments[f]})

\* max_score in thousandths
MaxMillis == RoundDigits(sc_max_score, 3)

\* the weights of the rule, in percent
RuleCoreWeight == IF NumCore > 0 /\ NumImportant > 0 THEN 70 ELSE IF NumCore > 0 THEN 100 ELSE 0
RuleImportantWeight ==
    IF NumCore > 0 /\ NumImportant > 0 THEN 30 ELSE IF NumCore > 0 THEN 0 ELSE 100

Abs(x) == IF x < 0 THEN -x ELSE x

\* C1: for every non-empty verdict set the weights are (0.70, 0.30) when both
\* groups are present, (1.00, 0.00) with Core only, (0.00, 1.00) with
\* ImportantDetail only, and in each case they add up to 1.
C1_WeightRule ==
    (ScoreReturned /\ DOMAIN sc_assessments # {}) =>
        /\ sc_result.stats # <<>>
        /\ sc_result.stats.core.weight = FromRatio(RuleCoreWeight, 100)
        /\ sc_result.stats.details_important.weight = FromRatio(RuleImportantWeight, 100)
        /\ FAdd(sc_result.stats.core.weight, sc_result.stats.details_important.weight)
              = FromRatio(1, 1)

C1_Witness ==
    /\ ScoreReturned
    /\ NumCore > 0 /\ NumImportant > 0
    /\ sc_result.stats.core.weight = F070

\* C2: the score is (coreSatisfied/coreTotal * coreWeight +
\* importantSatisfied/importantTotal * importantWeight) * maxScore rounded to
\* two places, an empty group contributing 0: it lies within half a hundredth
\* of that value.  3 of 4 Core and 1 of 2 Important with maxScore 10 give
\* 6.75; 2 of 2 Core, no Important and maxScore 5 give 5.00.
C2_ScoreFormula ==
    (ScoreReturned /\ DOMAIN sc_assessments # {}) =>
        LET ct  == IF NumCore > 0 THEN NumCore ELSE 1
            it  == IF NumImportant > 0 THEN NumImportant ELSE 1
            num == (NumCoreSat * RuleCoreWeight * it
                      + NumImportantSat * RuleImportantWeight * ct) * MaxMillis
            den == ct * it * 1000
        IN  /\ 2 * Abs(sc_result.score * den - num) <= den
            /\ (NumCore = 4 /\ NumCoreSat = 3 /\ NumImportant = 2 /\ NumImportantSat = 1
                  /\ MaxMillis = 10000) => sc_result.score = 675
            /\ (NumCore = 2 /\ NumCoreSat = 2 /\ NumImportant = 0 /\ MaxMillis = 5000)
                  => sc_result.score = 500

C2_Witness ==
    /\ ScoreReturned
    /\ NumCore = 4 /\ NumCoreSat = 3 /\ NumImportant = 2 /\ NumImportantSat = 1
    /\ MaxMillis = 10000
    /\ sc_result.score = 675

\* C3: for every verdict set and every non-negative maxScore the score is at
\* least 0, at most maxScore, and has at most two decimal places.
C3_ScoreWithinMax ==
    ScoreReturned =>
        /\ sc_result.score >= 0
        /\ FCmp(ScoreFloat(sc_result.score), sc_max_score) <= 0
        /\ RoundDigits(ScoreFloat(sc_result.score), 2) = sc_result.score

\* ------------------------------------------------------------------------
\* Properties of assess_student_exam (checked under Spec)
\* ------------------------------------------------------------------------

\* the questions the loop is through with
DoneQuestions == 1..Len(assessments)

QuestionId(k) == exam_questions[k].id

\* the checklist of question k can be found
Resolvable(k) == has_solution(QuestionId(k))

\* the features of question k: Core in list order, then ImportantDetail
ChecklistOrder(k) ==
    LET a == solution(QuestionId(k))
    IN  [i \in 1..Len(a.core) |-> Feature(CORE, a.core[i])]
          \o [i \in 1..Len(a.details_important) |->
                Feature(DETAILS_IMPORTANT, a.details_important[i])]

InResponses(k) == exam_questions[k].number \in DOMAIN student_responses

ResponseOf(k) == student_responses[exam_questions[k].number]

\* absent, empty, or "-" after trimming
Unanswered(k) ==
    \/ ~InResponses(k)
    \/ ResponseOf(k) = <<>>
    \/ strip(ResponseOf(k)) = <<"-">>

CallsOf(k) == SelectSeq(llm_calls, LAMBDA c : c.question = k)

JudgedFeatures(k) == [i \in 1..Len(CallsOf(k)) |-> CallsOf(k)[i].feature]

JudgeRaisedFor(k) == \E i \in 1..Len(llm_calls) :
                        llm_calls[i].question = k /\ llm_calls[i].outcome = "raised"

InQuestionOrder ==
    \A i, j \in 1..Len(llm_calls) : i < j => llm_calls[i].question <= llm_calls[j].question

\* C4: a checklist without features gives score 0 for any answer; an answered
\* question is then assessed (no error) with score 0.0, breakdown
\* "No features assessed" and empty statistics, and the judge is never called.
C4_EmptyChecklist ==
    /\ \A k \in DoneQuestions :
          (Resolvable(k) /\ ChecklistOrder(k) = <<>>) =>
             /\ assessments[k].score = 0
             /\ ~Unanswered(k) =>
                   /\ assessments[k].status = "assessed"
                   /\ assessments[k].breakdown = [text |-> "No features assessed"]
                   /\ assessments[k].statistics = <<>>
    /\ \A i \in 1..Len(llm_calls) :
          ChecklistOrder(llm_calls[i].question) # <<>>

C4_Witness ==
    /\ pc = "done"
    /\ \E k \in DoneQuestions :
          /\ Resolvable(k) /\ ChecklistOrder(k) = <<>> /\ ~Unanswered(k)
          /\ assessments[k].status = "assessed"

\* C5: a question whose answer is absent, empty or "-" after trimming gets
\* status no_response, score 0 and its max score, and no judge call,
\* whatever the state of the checklist cache.
C5_NoResponse ==
    \A k \in DoneQuestions :
        Unanswered(k) =>
           /\ assessments[k].status = "no_response"
           /\ assessments[k].score = 0
           /\ assessments[k].max_score = exam_questions[k].score
           /\ CallsOf(k) = <<>>

\* C6 as stated: for an answered question with a resolved checklist the judge
\* is called exactly once per checklist feature, Core first, in list order,
\* and the calls of question k come before those of question k+1.
C6_OncePerFeature ==
    /\ \A k \in DoneQuestions :
          (~Unanswered(k) /\ Resolvable(k)) => JudgedFeatures(k) = ChecklistOrder(k)
    /\ InQuestionOrder

\* C6 amended: the judge is called at most once per checklist feature, never
\* again, Core first, in list order: for every feature when no call raises,
\* and else for the features up to the one whose call raised, which is the
\* last call of the question; the calls of question k come before those of
\* question k+1.
C6_OncePerFeatureUntilFault ==
    /\ \A k \in DoneQuestions :
          (~Unanswered(k) /\ Resolvable(k)) =>
             LET n == Len(CallsOf(k))
             IN  /\ n <= Len(ChecklistOrder(k))
                 /\ JudgedFeatures(k) = SubSeq(ChecklistOrder(k), 1, n)
                 /\ \A i \in 1..(n - 1) : CallsOf(k)[i].outcome # "raised"
                 /\ ~JudgeRaisedFor(k) => n = Len(ChecklistOrder(k))
    /\ InQuestionOrder

C6_Witness ==
    /\ pc = "done"
    /\ \E k \in DoneQuestions : \E j \in DoneQuestions :
          /\ k < j
          /\ assessments[k].status = "assessed"
          /\ Len(CallsOf(k)) = 2
          /\ JudgedFeatures(k) = <<Feature(CORE, 1), Feature(DETAILS_IMPORTANT, 2)>>
          /\ Len(CallsOf(j)) > 0

\* C7: an answered question whose checklist cannot be resolved, or one of
\* whose judge calls raises, gets status error, score 0, its max score and
\* an error message.
C7_FaultsAreErrors ==
    \A k \in DoneQuestions :
        (InResponses(k) /\ (~Resolvable(k) \/ JudgeRaisedFor(k))) =>
           /\ assessments[k].status = "error"
           /\ assessments[k].score = 0
           /\ assessments[k].max_score = exam_questions[k].score
           /\ "error" \in DOMAIN assessments[k]

C7_Witness ==
    /\ pc = "done"
    /\ \E k \in DoneQuestions : \E j \in DoneQuestions :
          /\ ~Resolvable(k) /\ InResponses(k) /\ assessments[k].status = "error"
          /\ JudgeRaisedFor(j) /\ assessments[j].status = "error"

\* the result of question k as its own inputs give it: the answer, the
\* checklist, the verdicts of its own judge calls
RECURSIVE VerdictDict(_)
VerdictDict(calls) ==
    IF calls = <<>> THEN <<>>
    ELSE DictSet(VerdictDict(SubSeq(calls, 1, Len(calls) - 1)),
                 calls[Len(calls)].feature,
                 calls[Len(calls)].outcome = "satisfied")

OwnStatus(k) ==
    IF ~InResponses(k) THEN "no_response"
    ELSE IF ~Resolvable(k) THEN "error"
    ELSE IF Unanswered(k) THEN "no_response"
    ELSE IF JudgeRaisedFor(k) THEN "error"
    ELSE "assessed"

\* the score lies within half a hundredth of the weighted share of the max
\* score that the verdicts give
OwnScoreIs(k, h) ==
    LET d    == VerdictDict(CallsOf(k))
        nc   == Cardinality({f \in DOMAIN d : f.type = CORE})
        ncs  == Cardinality({f \in DOMAIN d : f.type = CORE /\ d[f]})
        ni   == Cardinality({f \in DOMAIN d : f.type = DETAILS_IMPORTANT})
        nis  == Cardinality({f \in DOMAIN d : f.type = DETAILS_IMPORTANT /\ d[f]})
        cw   == IF nc > 0 /\ ni > 0 THEN 70 ELSE IF nc > 0 THEN 100 ELSE 0
        iw   == IF nc > 0 /\ ni > 0 THEN 30 ELSE IF nc > 0 THEN 0 ELSE 100
        ct   == IF nc > 0 THEN nc ELSE 1
        it   == IF ni > 0 THEN ni ELSE 1
        num  == (ncs * cw * it + nis * iw * ct) * QuestionScore[QuestionId(k)]
        den  == ct * it * 1000
    IN  IF OwnStatus(k) = "assessed" THEN 2 * Abs(h * den - num) <= den ELSE h = 0

\* C8: an error on question k does not end the exam: every later question
\* gets its own result, with the status and score its own inputs give it.
C8_ErrorIsolation ==
    /\ pc \in {"saving", "done", "raised"} => Len(assessments) = Len(exam_questions)
    /\ \A j \in DoneQuestions :
          (\E k \in 1..(j - 1) : assessments[k].status = "error") =>
             /\ assessments[j].status = OwnStatus(j)
             /\ OwnScoreIs(j, assessments[j].score)

C8_Witness ==
    /\ pc = "done"
    /\ Len(assessments) >= 2
    /\ assessments[1].status = "error"
    /\ assessments[2].status = "assessed"
    /\ assessments[2].score > 0

\* C9: a returned ExamAssessment has one question result per exam question,
\* in exam order.
C9_Coverage ==
    pc = "done" =>
       /\ Len(result.assessments) = Len(exam_questions)
       /\ \A k \in 1..Len(exam_questions) :
             /\ result.assessments[k].question_number = exam_questions[k].number
             /\ result.assessments[k].question_id = exam_questions[k].id

C9_Witness ==
    /\ pc = "done"
    /\ Len(exam_questions) >= 2
    /\ {"no_response", "error"} \subseteq
          {result.assessments[k].status : k \in 1..Len(result.assessments)}

RECURSIVE SumScores(_)
SumScores(as) == IF as = <<>> THEN 0 ELSE as[1].score + SumScores(Tail(as))

RECURSIVE SumMaxMillis(_)
SumMaxMillis(qs) == IF qs = <<>> THEN 0 ELSE QuestionScore[qs[1].id] + SumMaxMillis(Tail(qs))

\* C10: calculated_score is the sum of the question scores, max_score the sum
\* of the max scores of all exam questions (both are float sums: they are the
\* exact sums once rounded to the places the addends have), percentage is
\* 100 * total / totalMax rounded to one place (within half a tenth of it),
\* or 0 when totalMax is 0.
C10_Totals ==
    pc = "done" =>
       LET total == SumScores(result.assessments)
           tmax  == SumMaxMillis(exam_questions)
       IN  /\ RoundDigits(result.calculated_score, 2) = total
           /\ RoundDigits(result.max_score, 3) = tmax
           /\ IF tmax = 0 THEN result.percentage = 0
              ELSE 2 * Abs(result.percentage * tmax - 10000 * total) <= tmax

C10_Witness ==
    /\ pc = "done"
    /\ SumScores(result.assessments) > 0
    /\ result.percentage > 0
    /\ \E k \in 1..Len(result.assessments) :
          result.assessments[k].status \in {"error", "no_response"}

\* C11: every question result has status no_response, assessed or error;
\* 0 <= score <= max_score; score 0 unless assessed; feature verdicts only
\* when assessed (those collected before a judge fault are dropped); an error
\* message only when the status is error.
C11_QuestionResult ==
    \A k \in DoneQuestions :
        /\ assessments[k].status \in {"no_response", "assessed", "error"}
        /\ assessments[k].score >= 0
        /\ FCmp(ScoreFloat(assessments[k].score), assessments[k].max_score) <= 0
        /\ assessments[k].status # "assessed" => assessments[k].score = 0
        /\ "feature_assessments" \in DOMAIN assessments[k]
              => assessments[k].status = "assessed"
        /\ "error" \in DOMAIN assessments[k] <=> assessments[k].status = "error"

\* the score of question k as its answer, checklist and own judge calls give it
ExpectedScore(k) ==
    IF OwnStatus(k) = "assessed"
    THEN calculate_score(VerdictDict(CallsOf(k)), exam_questions[k].score).score
    ELSE 0

\* the float sum of the scores of the first n question results
RECURSIVE ExpectedTotal(_, _)
ExpectedTotal(results, n) ==
    IF n = 0 THEN FZero
    ELSE FAdd(ExpectedTotal(results, n - 1), ScoreFloat(results[n].score))

\* the float sum of the max scores of the first n questions
RECURSIVE ExpectedMax(_)
ExpectedMax(n) ==
    IF n = 0 THEN FZero ELSE FAdd(ExpectedMax(n - 1), exam_questions[n].score)

\* C12: original_grades never influences scoring: the statuses and scores of
\* the questions, the total score, the total max and the percentage of a
\* result are what the questions, the answers, the checklists and the judge's
\* verdicts give, whatever original_grades is (so two runs that differ only
\* in it agree on them); original_grades is only copied into the result.
\* The total is the float sum of the question scores, the percentage that
\* of the total and the total max.
C12_GradesNotUsed ==
    pc = "done" =>
       /\ Len(result.assessments) = Len(exam_questions)
       /\ \A k \in 1..Len(exam_questions) :
             /\ result.assessments[k].status = OwnStatus(k)
             /\ result.assessments[k].score = ExpectedScore(k)
       /\ result.calculated_score = ExpectedTotal(result.assessments, Len(exam_questions))
       /\ result.max_score = ExpectedMax(Len(exam_questions))
       /\ result.percentage = exam_percentage(result.calculated_score, result.max_score)
       /\ result.original_grades = (IF original_grades = None THEN <<>> ELSE original_grades)

C12_Witness ==
    /\ pc = "done"
    /\ original_grades = Grades(1850, (1 :> 200))
    /\ result.original_grades = original_grades
    /\ Len(result.assessments) = 2
    /\ result.assessments[1].status = "assessed"
    /\ result.assessments[1].score \notin {0, 200}
    /\ RoundDigits(result.calculated_score, 2) \notin {0, 1850}

\* ------------------------------------------------------------------------
\* Properties of the assess_student_exam tool (checked under SpecTool)
\* ------------------------------------------------------------------------

ToolCalled == tool_student_email # NoCall

\* the query after the tool has trimmed it
CleanQuery == student_email_clean(tool_student_email)

\* the emails of the loaded students in iteration order
RosterEmails ==
    [i \in 1..Len(roster_entries(loaded_exams)) |->
        roster_entries(loaded_exams)[i].student.email]

StudentFound == student_data # None

SameEmails == {i \in DOMAIN RosterEmails : RosterEmails[i] = CleanQuery}

ExactHits == {i \in DOMAIN RosterEmails : lower(RosterEmails[i]) = lower(CleanQuery)}

PrefixHits ==
    {i \in DOMAIN RosterEmails : startswith(lower(RosterEmails[i]), lower(CleanQuery))}

\* C13: a fault of the result store while a student's assessment is saved
\* does not invalidate the computed result: the caller of the tool still
\* receives the student's computed scores.
C13_SaveFaultKeepsResult ==
    (pc = "raised" /\ tool_result # <<>>) =>
       /\ "calculated_score" \in DOMAIN tool_result
       /\ tool_result.calculated_score = total_score
       /\ tool_result.max_score = total_max_score
       /\ tool_result.assessments = assessments

\* C14: the student is resolved in strict priority order, for every roster
\* order: an identity equal to the query case-sensitively is returned if
\* there is one; else one equal to it case-insensitively if there is one; a
\* case-insensitive prefix match only when no identity matches exactly.
C14_PriorityOrder ==
    ToolCalled =>
       /\ SameEmails # {} => (StudentFound /\ student_data.email = CleanQuery)
       /\ (SameEmails = {} /\ ExactHits # {}) =>
             (StudentFound /\ lower(student_data.email) = lower(CleanQuery))
       /\ (StudentFound /\ lower(student_data.email) # lower(CleanQuery)) => ExactHits = {}

\* C15: a prefix match is taken only for a query of at least 10 characters,
\* and is then the first roster entry in iteration order whose identity
\* starts with the query case-insensitively; a query no rule holds for (so
\* every query under 10 characters that equals no identity
\* case-insensitively) gets the not-found error with a sample of the loaded
\* identities, no judge call and no store write.
C15_PrefixRule ==
    ToolCalled =>
       /\ (StudentFound /\ lower(student_data.email) # lower(CleanQuery)) =>
             Len(CleanQuery) >= 10
       /\ (ExactHits = {} /\ Len(CleanQuery) >= 10 /\ PrefixHits # {}) =>
             /\ StudentFound
             /\ \E i \in PrefixHits :
                   /\ student_data.email = RosterEmails[i]
                   /\ \A j \in PrefixHits : i <= j
       /\ (ExactHits = {} /\ (Len(CleanQuery) < 10 \/ PrefixHits = {})) =>
             /\ ~StudentFound
             /\ DOMAIN tool_result = {"error", "searched_for", "available_students_sample",
                                      "hint", "num_loaded_students"}
             /\ tool_result.error = <<"Student not found", CleanQuery>>
             /\ \A i \in DOMAIN tool_result.available_students_sample :
                   \E j \in DOMAIN RosterEmails :
                      tool_result.available_students_sample[i] = RosterEmails[j]
             /\ RosterEmails # <<>> => tool_result.available_students_sample # <<>>
             /\ llm_calls = <<>>
             /\ evaluations = <<>>
             /\ result = <<>>
             /\ pc = "idle"

C15_Witness ==
    /\ ToolCalled
    /\ Len(CleanQuery) < 10
    /\ ExactHits = {}
    /\ PrefixHits # {}
    /\ "error" \in DOMAIN tool_result
    /\ Len(tool_result.available_students_sample) = 2
    /\ llm_calls = <<>>

\* ------------------------------------------------------------------------
\* Properties of the multi-agent run (checked under SpecBatch)
\* ------------------------------------------------------------------------

Distributed == bpc \in {"dispatch", "workers", "report", "end"}

\* the emails of the students of the state, in roster order
Roster == [i \in 1..Len(exam_students) |-> exam_students[i].email]

\* setup_node has not returned
Loading == bpc \in {"setup", "gather"}

RECURSIVE Concat(_)
Concat(seqs) == IF seqs = <<>> THEN <<>> ELSE seqs[1] \o Concat(Tail(seqs))

\* the roster position before the first student of batch b
BatchStart(b) == Len(Concat(SubSeq(student_batches, 1, b - 1)))

\* ceil(r / w)
CeilDiv(r, w) == (r + w - 1) \div w

\* C16: for every roster (R >= 0) and worker count (W >= 1) the batches are
\* contiguous slices of the roster and their concatenation in batch order is
\* the roster: every position is in exactly one batch, order is kept.
C16_Partition ==
    Distributed =>
       /\ Concat(student_batches) = Roster
       /\ \A b \in 1..Len(student_batches) :
             student_batches[b] = SubSeq(Roster, BatchStart(b) + 1,
                                         BatchStart(b) + Len(student_batches[b]))

C16_Witness ==
    /\ Distributed
    /\ Roster = <<EMAIL_AB_LONG, EMAIL_AB, EMAIL_B>>
    /\ student_batches = << <<EMAIL_AB_LONG, EMAIL_AB>>, <<EMAIL_B>> >>

\* C17: every batch except possibly the last has exactly ceil(R / W)
\* students, and the last has at most that many.
C17_BatchSizes ==
    Distributed =>
       \A b \in 1..Len(student_batches) :
          IF b < Len(student_batches)
          THEN Len(student_batches[b]) = CeilDiv(Len(exam_students), self_num_workers)
          ELSE Len(student_batches[b]) <= CeilDiv(Len(exam_students), self_num_workers)

\* C18: the number of batches, and of workers launched, is never above
\* numWorkers; no batch is empty; an empty roster gives no batch; a roster of
\* at least numWorkers students gives exactly numWorkers batches.
C18_BatchCount ==
    Distributed =>
       /\ Len(student_batches) <= self_num_workers
       /\ bpc # "dispatch" => Len(workers) = Len(student_batches)
       /\ \A b \in 1..Len(student_batches) : student_batches[b] # <<>>
       /\ exam_students = <<>> => student_batches = <<>>
       /\ Len(exam_students) >= self_num_workers => Len(student_batches) = self_num_workers

\* the tool calls of worker w so far
WorkerCalls(w) == SelectSeq(tool_log, LAMBDA c : c.worker = w)

\* the students of a sequence of calls or of result rows
StudentsOf(rows) == [i \in 1..Len(rows) |-> rows[i].student]

\* C19: a fault on one student (an error answer of the assessment; the tool
\* turns every exception into one) touches that student only: the worker
\* calls the tool for every student of its batch in order whatever the
\* outcomes, its results are those of exactly its students that were
\* assessed, and what every worker returned is in the merged results.
C19_FaultIsolation ==
    /\ \A w \in 1..Len(workers) :
          /\ StudentsOf(WorkerCalls(w)) = SubSeq(workers[w].batch, 1, workers[w].idx - 1)
          /\ workers[w].returned => workers[w].idx = Len(workers[w].batch) + 1
          /\ StudentsOf(workers[w].results)
                = StudentsOf(SelectSeq(WorkerCalls(w), LAMBDA c : c.outcome = "assessed"))
    /\ bpc \in {"report", "end"} =>
          /\ Len(state_assessments) =
                Len(SelectSeq(tool_log, LAMBDA c : c.outcome = "assessed"))
          /\ \A w \in 1..Len(workers) : \A i \in 1..Len(workers[w].results) :
                \E j \in 1..Len(state_assessments) :
                   state_assessments[j] = workers[w].results[i]

C19_Witness ==
    /\ bpc = "end"
    /\ Len(workers) = 2
    /\ Len(WorkerCalls(1)) = 2
    /\ Len(WorkerCalls(2)) = 1
    /\ WorkerCalls(1)[1].outcome # "assessed"
    /\ WorkerCalls(1)[2].outcome = "assessed"
    /\ WorkerCalls(2)[1].outcome = "assessed"
    /\ tool_log[1].worker = 2
    /\ Len(state_assessments) = 2

\* C20: the report accounts for every roster student: a student whose
\* assessment failed is in the report, so the number of students in the
\* report is the size of the roster.
C20_ReportComplete ==
    (bpc = "end" /\ exam_students # <<>>) =>
       /\ "student_lines" \in DOMAIN state_result
       /\ state_result.students_total = Len(exam_students)
       /\ \A i \in 1..Len(Roster) :
             \E j \in 1..Len(state_result.student_lines) :
                state_result.student_lines[j].student = Roster[i]

\* ------------------------------------------------------------------------
\* Properties of the report (checked under SpecBatch)
\* ------------------------------------------------------------------------

\* the run ended with a report of at least one assessment
Reported == bpc = "end" /\ "student_lines" \in DOMAIN state_result

\* the scores of rows, in hundredths
Hundredths(rows) == [i \in 1..Len(rows) |-> RoundDigits(rows[i].score, 2)]

RECURSIVE SumSeq(_)
SumSeq(s) == IF s = <<>> THEN 0 ELSE Head(s) + SumSeq(Tail(s))

\* m is the mean of the numbers of s to the nearest unit
IsMeanOf(m, s) == 2 * Abs(m * Len(s) - SumSeq(s)) <= Len(s)

\* C21: the report lists the merged assessments in ascending order of
\* student; its mean, minimum and maximum are those of the scores of the
\* merged list, whatever the order the workers ran in; the mean of a worker
\* is over the rows that worker returned; every line has the score of its
\* row.
C21_ReportStatistics ==
    Reported =>
       LET lines == state_result.student_lines
           scores == Hundredths(state_assessments)
       IN  /\ \A i \in 1..(Len(lines) - 1) : str_lt(lines[i].student, lines[i + 1].student)
           /\ Len(lines) = Len(state_assessments)
           /\ \A i \in 1..Len(state_assessments) :
                 \E j \in 1..Len(lines) :
                    /\ lines[j].student = state_assessments[i].student
                    /\ lines[j].score = scores[i]
                    /\ lines[j].max_score = state_assessments[i].max_score
                    /\ lines[j].percentage = state_assessments[i].percentage
                    /\ lines[j].worker_id = state_assessments[i].worker_id
           /\ IsMeanOf(state_result.avg_score, scores)
           /\ \E i \in 1..Len(scores) : state_result.max_score = scores[i]
           /\ \E i \in 1..Len(scores) : state_result.min_score = scores[i]
           /\ \A i \in 1..Len(scores) :
                 /\ state_result.max_score >= scores[i]
                 /\ state_result.min_score <= scores[i]
           /\ DOMAIN state_result.worker_lines
                 = {w \in 1..Len(workers) : workers[w].results # <<>>}
           /\ \A w \in DOMAIN state_result.worker_lines :
                 /\ state_result.worker_lines[w].students = Len(workers[w].results)
                 /\ IsMeanOf(state_result.worker_lines[w].avg,
                             Hundredths(workers[w].results))

\* a report of three students with different scores from two workers, the
\* second worker called first, whose merged list was not in the order of
\* the students
C21_Witness ==
    /\ Reported
    /\ Len(state_assessments) = 3
    /\ Len(workers) = 2
    /\ tool_log[1].worker = 2
    /\ str_lt(state_assessments[2].student, state_assessments[1].student)
    /\ state_result.student_lines[1].student # state_assessments[1].student
    /\ state_result.min_score < state_result.avg_score
    /\ state_result.avg_score < state_result.max_score
    /\ state_result.worker_lines[1].avg # state_result.worker_lines[2].avg

\* ------------------------------------------------------------------------
\* Properties of the evaluations directory (checked under SpecStore)
\* ------------------------------------------------------------------------

\* C22: the evaluations directory has one assessment.json for each student
\* that was saved, however many times, under the full email of the roster
\* record also when the query was a case variant or a prefix; the file is
\* a whole result of that student, the last one written for them: a write
\* puts the result of the call there in place of what was there and leaves
\* the files of the other students as they were, and nothing else changes
\* the directory.
C22_StoreKeyed ==
    /\ [](/\ DOMAIN evaluations = DOMAIN store_writes
          /\ DOMAIN evaluations \subseteq {RosterEmails[i] : i \in DOMAIN RosterEmails}
          /\ \A k \in DOMAIN evaluations :
                /\ "student_email" \in DOMAIN evaluations[k]
                /\ evaluations[k].student_email = k
          /\ pc = "done" => /\ student_data.email \in DOMAIN evaluations
                            /\ result = evaluations[student_data.email]
                                          @@ [saved_files |-> <<"assessment.json", "summary.txt">>])
    /\ [][(evaluations' # evaluations \/ store_writes' # store_writes) =>
             /\ pc = "saving"
             /\ pc' \in {"done", "raised"}
             /\ DOMAIN evaluations' = DOMAIN evaluations \cup {student_data.email}
             /\ evaluations'[student_data.email] = result
             /\ \A k \in DOMAIN evaluations :
                   k # student_data.email => evaluations'[k] = evaluations[k]]_vars

\* ------------------------------------------------------------------------
\* Properties of repeated calls of calculate_score (checked under SpecRescore)
\* ------------------------------------------------------------------------

\* C23: two calls of calculate_score with the same verdicts (equal dicts,
\* whatever order they were filled in) and the same max score return the
\* same score and the same breakdown, whatever was called in between and
\* whatever the context of the Assessor held at each call.
C23_Deterministic ==
    \A i, j \in 1..Len(sc_calls) :
       (/\ sc_calls[i].assessments = sc_calls[j].assessments
        /\ sc_calls[i].max_score = sc_calls[j].max_score)
          => /\ sc_calls[i].result.score = sc_calls[j].result.score
             /\ sc_calls[i].result.breakdown = sc_calls[j].result.breakdown

\* the first and the third call had the same verdicts and max score, in
\* dicts filled in different orders and with different context caches; the
\* call between them had others and another score
C23_Witness ==
    /\ Len(sc_calls) = 3
    /\ sc_calls[1].assessments = MakeAssessments(1, 1, {Feature(CORE, 1)})
    /\ sc_calls[3].assessments = sc_calls[1].assessments
    /\ sc_calls[3].max_score = sc_calls[1].max_score
    /\ sc_calls[3].items # sc_calls[1].items
    /\ sc_calls[3].context # sc_calls[1].context
    /\ sc_calls[2].result.score # sc_calls[1].result.score
    /\ sc_calls[1].result.score > 0

\* ------------------------------------------------------------------------
\* Properties of the graph run (checked under SpecBatch)
\* ------------------------------------------------------------------------

\* C24: the report is made once and only when every worker that was
\* launched has returned; the list it gets is made of the lists of the
\* workers: the rows of each worker in the order the worker made them, every
\* row there once and no other row, whatever the order the workers ran in.
C24_FanIn ==
    /\ [](/\ (bpc \in {"report", "end"} /\ workers # <<>>) =>
                /\ \A w \in 1..Len(workers) :
                      /\ workers[w].returned
                      /\ SelectSeq(state_assessments, LAMBDA a : a.worker_id = w)
                            = workers[w].results
                      /\ StudentsOf(workers[w].results)
                            = StudentsOf(SelectSeq(WorkerCalls(w),
                                                   LAMBDA c : c.outcome = "assessed"))
                /\ \A i \in 1..Len(state_assessments) :
                      state_assessments[i].worker_id \in 1..Len(workers)
                /\ \A i, j \in 1..Len(state_assessments) :
                      i # j => state_assessments[i].student # state_assessments[j].student
          /\ bpc \notin {"report", "end"} => state_assessments = <<>>
          /\ state_result # <<>> => bpc = "end")
    /\ [][state_result # <<>> => state_result' = state_result]_vars

\* two workers returned two rows and one row, the second worker having run
\* first, and the report was made from the three rows
C24_Witness ==
    /\ bpc = "end"
    /\ state_result # <<>>
    /\ Len(workers) = 2
    /\ Len(workers[1].results) = 2
    /\ Len(workers[2].results) = 1
    /\ tool_log[1].worker = 2
    /\ state_assessments = workers[1].results \o workers[2].results

\* C25: no worker is launched, no student is submitted to the tool and no
\* judge is called before setup_node has loaded the exam and every task of
\* its gather has run; when the load of the exam fails no batch is made, no
\* worker is launched and no student is assessed.
C25_LoadBarrier ==
    /\ Loading =>
          /\ student_batches = <<>>
          /\ workers = <<>>
          /\ tool_log = <<>>
          /\ state_assessments = <<>>
          /\ tool_student_email = NoCall
          /\ pc = "idle"
          /\ llm_calls = <<>>
          /\ evaluations = <<>>
    /\ (workers # <<>> \/ tool_log # <<>> \/ tool_student_email # NoCall) =>
          /\ exam_loaded
          /\ loaded_exams = <<exam_files>>
          /\ checklist_tasks = <<>>
          /\ loaded_checklists = load_checklists(exam_files.questions, <<>>)
    /\ (~Loading /\ ~exam_loaded) =>
          /\ exam_students = <<>>
          /\ student_batches = <<>>
          /\ workers = <<>>
          /\ tool_log = <<>>
          /\ state_assessments = <<>>
          /\ tool_student_email = NoCall
          /\ llm_calls = <<>>
          /\ evaluations = <<>>

\* the exam files could not be read and the run has ended
C25_Witness ==
    /\ bpc = "end"
    /\ exam_files = None
    /\ ~exam_loaded
    /\ loaded_exams = <<>>
    /\ state_num_workers = 0

\* C26: while a worker is in a call of the tool (in a judge call or a write
\* of the store), every other worker that has not returned can take a step.
C26_PeersProgress ==
    \A w, v \in 1..Len(workers) :
       (/\ bpc = "workers"
        /\ w # v
        /\ workers[w].calling
        /\ ~workers[v].returned)
          => ENABLED (worker_call(v) \/ worker_student(v) \/ worker_return(v))

\* C27: when setup_node has returned the checklist cache of the context is
\* what the tasks of its gather loaded, and no step of the run, of a worker,
\* of the tool or of a node, changes it.
C27_CacheFrozen ==
    /\ []((~Loading /\ exam_loaded) =>
             loaded_checklists = load_checklists(exam_files.questions, <<>>))
    /\ [][~Loading => loaded_checklists' = loaded_checklists]_vars

\* students of an exam with a cached checklist and a question without a
\* solution file were assessed by two workers
C27_Witness ==
    /\ bpc = "end"
    /\ exam_loaded
    /\ DOMAIN loaded_checklists = {"A-1"}
    /\ Len(workers) = 2
    /\ \A i \in 1..Len(tool_log) : tool_log[i].outcome = "assessed"
    /\ Len(state_assessments) = 3

\* ------------------------------------------------------------------------
\* Termination of the graph run (checked under SpecBatchFair)
\* ------------------------------------------------------------------------

\* the run has ended with a report and every roster student was submitted to
\* the tool once, by one worker
RunComplete ==
    /\ bpc = "end"
    /\ state_result # <<>>
    /\ \A w \in 1..Len(workers) : workers[w].returned
    /\ \A i \in 1..Len(Roster) :
          Cardinality({j \in 1..Len(tool_log) : tool_log[j].student = Roster[i]}) = 1
    /\ Len(tool_log) = Len(exam_students)
    /\ \A j \in 1..Len(tool_log) :
          \E i \in 1..Len(workers[tool_log[j].worker].batch) :
             workers[tool_log[j].worker].batch[i] = tool_log[j].student

\* C30: when the exam is loaded with at least one student and every tool
\* call answers or raises, the run reaches the report and ends, every roster
\* student having been submitted to the tool exactly once, by one worker.
C30_Terminates ==
    (bpc = "distribute" /\ exam_loaded /\ exam_students # <<>>) ~> RunComplete

\* a run of three students and two workers has ended with its report
C30_Witness ==
    /\ RunComplete
    /\ exam_loaded
    /\ Len(exam_students) = 3
    /\ Len(workers) = 2
    /\ "student_lines" \in DOMAIN state_result

\* C28: a call of the tool with the identity of a roster student, as a
\* worker of a batch run makes it, matches the roster record with that
\* identity, and what is saved is saved under that identity.
C28_AssessedAsThemselves ==
    (/\ ToolCalled
     /\ \E i \in DOMAIN RosterEmails : RosterEmails[i] = tool_student_email) =>
       /\ StudentFound
       /\ student_data.email = tool_student_email
       /\ DOMAIN evaluations \subseteq {tool_student_email}

\* C29: for a question that ends assessed with a checklist that has
\* features, statistics core.total is the number of Core entries of the
\* checklist and details_important.total the number of ImportantDetail
\* entries, so that the two sum to the length of feature_assessments, also
\* for a checklist with the same feature twice.
C29_CountedAsJudged ==
    \A k \in DoneQuestions :
       (/\ assessments[k].status = "assessed"
        /\ assessments[k].statistics # <<>>) =>
          /\ assessments[k].statistics.core.total
                = Len(solution(QuestionId(k)).core)
          /\ assessments[k].statistics.details_important.total
                = Len(solution(QuestionId(k)).details_important)
          /\ assessments[k].statistics.core.total
               + assessments[k].statistics.details_important.total
                = Len(assessments[k].feature_assessments)

====
